---- MODULE Spec2Model ----
(***************************************************************************)
(* A model of the Crestron Home integration (custom_components/            *)
(* crestron_home): the session handling of CrestronClient (api.py), the    *)
(* collection fetches and the aggregation of get_devices / get_sensors,    *)
(* the poll cycle of CrestronHomeDataUpdateCoordinator (coordinator.py)    *)
(* and the device map of CrestronDeviceManager (device_manager.py).        *)
(*                                                                         *)
(* All coroutines run on one asyncio event loop: a coroutine runs without  *)
(* interruption from one await that suspends to the next, so every action  *)
(* below is the code between two network awaits.                           *)
(***************************************************************************)
EXTENDS Integers, Sequences, FiniteSets, TLC

VARIABLES
    \* ---- CrestronClient session (api.py) ----
    auth_key,       \* self.auth_key: NoKey (None) or the key of the last login
    last_login,     \* self.last_login
    now,            \* time.time()
    issued,         \* controller side: number of auth keys handed out so far
    ticks,          \* number of clock advances so far
    pc,             \* per caller: position of its coroutine
    op,             \* per caller: "login" (login() alone) or "request" (_api_request)
    current_time,   \* per caller: login()'s local current_time
    req_key,        \* per caller: the Crestron-RestAPI-AuthKey header of its request
    branch,         \* per caller: which way login() went in this call
    resp,           \* per caller: the last answer it got from the controller
    result          \* per caller: how the call ended

sessVars == <<auth_key, last_login, now, issued, ticks, pc, op,
              current_time, req_key, branch, resp, result>>

VARIABLES
    \* ---- the controller and the configuration ----
    world,                  \* what the controller answers: rooms, scenes, devices, shades, sensors
    changes,                \* number of changes of the controller so far
    ignored_device_names,   \* the configured ignore patterns
    \* ---- one poll cycle: the GETs and the two coroutines of the gather ----
    client_rooms,   \* client.rooms
    fetch,          \* per collection of the controller, its GET: "idle", "pending" or "ok"
    recv,           \* per collection GET: the payload that arrived
    gd,             \* get_devices: "idle", "running" or "done"
    gd_result,      \* the list get_devices returned
    gs,             \* get_sensors: "idle", "running", "done", "failed" or "raised"
    gs_result,      \* the list get_sensors returned
    cycle,          \* "idle", "gathering" or "refreshing"
    polls,          \* number of cycles started; also the clock of last_updated
    failed,         \* the GETs of the current cycle that failed
    \* ---- CrestronDeviceManager (device_manager.py) ----
    objs,               \* the CrestronDevice objects, by object identity
    devices,            \* self.devices: device id -> object identity
    previous_devices,   \* self.previous_devices: the deep copy taken at poll start
    dm_result,          \* what poll_devices returned last: kind -> object identities
    dm_outcome,         \* how poll_devices ended last: "none", "ok", "empty", "raised"
    last_poll_time,     \* self.last_poll_time
    last_input,         \* the payloads of the last poll that ran to its end
    \* ---- CrestronHomeDataUpdateCoordinator (coordinator.py) ----
    update_counter,         \* self.update_counter
    refresh_rooms,          \* the local refresh_rooms of the running cycle
    coord_devices,          \* self.devices
    room_names,             \* self.room_names
    data,                   \* coordinator.data, the snapshot consumers read
    last_update_success,    \* coordinator.last_update_success
    aggregated              \* number of cycles whose aggregation loop ran

worldVars == <<world, changes, ignored_device_names>>
fetchVars == <<client_rooms, fetch, recv, gd, gd_result, gs, gs_result, cycle, polls, failed>>
dmVars == <<objs, devices, previous_devices, dm_result, dm_outcome,
            last_poll_time, last_input>>
coordVars == <<update_counter, refresh_rooms, coord_devices, room_names, data,
               last_update_success, aggregated>>
pollVars == <<worldVars, fetchVars, dmVars, coordVars>>

VARIABLES
    \* ---- one use of the ignore-pattern matcher ----
    match_name,         \* the argument name
    match_type,         \* the argument device_type
    match_patterns,     \* the argument ignored_device_names
    match_result        \* what _matches_ignored_pattern returned

matchVars == <<match_name, match_type, match_patterns, match_result>>

VARIABLES
    \* ---- the entities and what triggers a cycle ----
    cmd_name,           \* per entity: the command handler called last
    cmd_state,          \* per entity: where that handler is, or how it ended
    post_request,       \* per entity: the POST its handler sent last
    commands,           \* number of command handlers called so far
    post_status,        \* per entity: the status in the body of the last answered POST
    cmd_report,         \* per entity: what the client's command returned to the handler
    refresh_requests,   \* number of calls of coordinator.async_request_refresh
    refresh_pending,    \* a requested refresh has not started its cycle yet
    run_pc              \* per trigger: "idle", or "gathering" inside _async_update_data

entityVars == <<cmd_name, cmd_state, post_request, post_status, cmd_report, commands,
                refresh_requests, refresh_pending, run_pc>>

VARIABLES
    \* ---- one use of the level conversions ----
    codec_kind,     \* what is converted: "level" (0..65535) or "percentage" (0..100)
    codec_step,     \* number of conversions applied so far
    codec_in,       \* the value the conversions start from
    codec_mid,      \* the value after the first conversion
    codec_out       \* the value after the conversion back

codecVars == <<codec_kind, codec_step, codec_in, codec_mid, codec_out>>

VARIABLES
    \* ---- async_setup_entry and the construction of the coordinator ----
    entry_interval,     \* entry.data[CONF_UPDATE_INTERVAL], NoInterval if the key is absent
    setup_pc,           \* "idle", "start", "read" or "constructed"
    update_interval,    \* the local update_interval of async_setup_entry
    coord_interval      \* the coordinator's update_interval, in seconds

setupVars == <<entry_interval, setup_pc, update_interval, coord_interval>>

VARIABLES
    \* ---- the room refresh of the coordinator ----
    room_log,       \* the room name changes _refresh_room_names has found, in order
    refreshes       \* number of room refreshes run on their own so far

roomVars == <<room_log, refreshes>>
extraVars == <<matchVars, entityVars, codecVars, setupVars, roomVars>>

vars == <<sessVars, pollVars, extraVars>>

----------------------------------------------------------------------------
(* Bounds of the model *)

NumCallers == 2     \* concurrent callers of one client
MaxTicks == 1       \* clock advances in one behaviour
MaxKeys == 2        \* auth keys the controller hands out in one behaviour
MaxPatterns == 2     \* ignore patterns in one configuration
MaxPatternLen == 3   \* characters in one ignore pattern
MaxCommands == 2    \* command handlers called in one behaviour
MaxUpdates == 3     \* the value update_counter is followed up to

----------------------------------------------------------------------------
(* Constants of the program *)

CRESTRON_SESSION_TIMEOUT == 9 * 60

NoKey == 0                      \* None: no auth key (falsy)
NoLogin == 0                    \* last_login as set by __init__ and by a 401

StartTime == 2 * CRESTRON_SESSION_TIMEOUT
TickSteps == {CRESTRON_SESSION_TIMEOUT - 1, CRESTRON_SESSION_TIMEOUT}

Callers == 1..NumCallers

\* The answers of the controller to GET /login
LoginAnswers == {"login_ok", "login_nokey", "login_http_error",
                 "login_connect_error", "login_timeout"}
\* The answers of the controller to an authenticated request
RequestAnswers == {"ok", "http_401", "http_511", "http_error", "connect_error"}

----------------------------------------------------------------------------
(* Strings.  A Python str is a sequence of one-character strings, so that  *)
(* lower(), strip(), startswith(), endswith(), "in" and slicing are        *)
(* computed as Python computes them.                                       *)

UpperCase == <<"A", "B", "C", "D", "E", "F", "G", "H", "I", "J", "K", "L", "M",
               "N", "O", "P", "Q", "R", "S", "T", "U", "V", "W", "X", "Y", "Z">>
LowerCase == <<"a", "b", "c", "d", "e", "f", "g", "h", "i", "j", "k", "l", "m",
               "n", "o", "p", "q", "r", "s", "t", "u", "v", "w", "x", "y", "z">>

LowerChar(ch) ==
    IF \E i \in 1..Len(UpperCase) : UpperCase[i] = ch
    THEN LowerCase[CHOOSE i \in 1..Len(UpperCase) : UpperCase[i] = ch]
    ELSE ch

\* str.lower()
Lower(s) == [i \in 1..Len(s) |-> LowerChar(s[i])]

\* s[a:b] with 0 <= a, b <= len(s) (Python's half-open slice)
Slice(s, a, b) == SubSeq(s, a + 1, b)

\* str.startswith / str.endswith / "sub in s"
StartsWith(s, p) == Len(p) <= Len(s) /\ Slice(s, 0, Len(p)) = p
EndsWith(s, p) == Len(p) <= Len(s) /\ Slice(s, Len(s) - Len(p), Len(s)) = p
Contains(s, sub) ==
    \E i \in 0..(Len(s) - Len(sub)) : Slice(s, i, i + Len(sub)) = sub

\* str.strip(): leading and trailing blanks removed
RECURSIVE LStrip(_)
LStrip(s) == IF s # <<>> /\ Head(s) = " " THEN LStrip(Tail(s)) ELSE s
RECURSIVE RStrip(_)
RStrip(s) ==
    IF s # <<>> /\ s[Len(s)] = " " THEN RStrip(Slice(s, 0, Len(s) - 1)) ELSE s
Strip(s) == RStrip(LStrip(s))

\* f"{a} {b}"
Joined(a, b) == a \o <<" ">> \o b

----------------------------------------------------------------------------
(* _matches_ignored_pattern (api.py and device_manager.py hold the same    *)
(* loop; the device manager's copy returns False first when the list is    *)
(* empty, which the loop does as well).                                    *)

\* pattern[1:-1], pattern[1:], pattern[:-1]
Inner(p) == Slice(p, 1, Len(p) - 1)
DropFirst(p) == Slice(p, 1, Len(p))
DropLast(p) == Slice(p, 0, Len(p) - 1)

PatternMatches(name, device_type, pattern) ==
    IF StartsWith(pattern, <<"%">>) /\ EndsWith(pattern, <<"%">>)
    THEN Contains(name, Inner(pattern)) \/ Contains(device_type, Inner(pattern))
    ELSE IF StartsWith(pattern, <<"%">>)
    THEN EndsWith(name, DropFirst(pattern)) \/ EndsWith(device_type, DropFirst(pattern))
    ELSE IF EndsWith(pattern, <<"%">>)
    THEN StartsWith(name, DropLast(pattern)) \/ StartsWith(device_type, DropLast(pattern))
    ELSE name = pattern \/ device_type = pattern

\* a matcher that forgets pattern.lower()
_matches_ignored_pattern_RawPattern(name, device_type, ignored) ==
    \E i \in 1..Len(ignored) :
        PatternMatches(Lower(name), Lower(device_type), ignored[i])

_matches_ignored_pattern(name, device_type, ignored) ==
    \E i \in 1..Len(ignored) :
        PatternMatches(Lower(name), Lower(device_type), Lower(ignored[i]))

----------------------------------------------------------------------------
(* Payload values.  A JSON object is a function from its keys to values;   *)
(* d.get(k, default) looks the key up in its domain.  None is 0 for ids    *)
(* and room ids (both are falsy in the code) and <<>> is the empty str.    *)

Get(d, k, default) == IF k \in DOMAIN d THEN d[k] ELSE default

\* "a or b" on str values
OrElse(a, b) == IF a # <<>> THEN a ELSE b

\* a JSON element that is not an object: .get on it raises AttributeError
IsMalformed(d) == "malformed" \in DOMAIN d

MinOf(S) == CHOOSE x \in S : \A y \in S : x <= y

\* const.py
DEVICE_TYPE_LIGHT == "light"
DEVICE_TYPE_SHADE == "shade"
DEVICE_TYPE_SCENE == "scene"
DEVICE_TYPE_BINARY_SENSOR == "binary_sensor"
DEVICE_TYPE_SENSOR == "sensor"
NoHaType == ""              \* ha_device_type None

DEVICE_SUBTYPE_DIMMER == <<"D", "i", "m", "m", "e", "r">>
DEVICE_SUBTYPE_SWITCH == <<"S", "w", "i", "t", "c", "h">>
DEVICE_SUBTYPE_SHADE == <<"S", "h", "a", "d", "e">>
DEVICE_SUBTYPE_SCENE == <<"S", "c", "e", "n", "e">>
DEVICE_SUBTYPE_OCCUPANCY_SENSOR ==
    <<"O", "c", "c", "u", "p", "a", "n", "c", "y", "S", "e", "n", "s", "o", "r">>
DEVICE_SUBTYPE_PHOTO_SENSOR ==
    <<"P", "h", "o", "t", "o", "S", "e", "n", "s", "o", "r">>
DEVICE_SUBTYPE_DOOR_SENSOR ==
    <<"D", "o", "o", "r", "S", "e", "n", "s", "o", "r">>

HaTypes == {DEVICE_TYPE_LIGHT, DEVICE_TYPE_SHADE, DEVICE_TYPE_SCENE,
            DEVICE_TYPE_BINARY_SENSOR, DEVICE_TYPE_SENSOR}

\* the room lookup next((r.get("name", "") for r in rooms if r.get("id") == room_id), "")
RoomName(rooms, room_id) ==
    LET hits == {i \in 1..Len(rooms) : Get(rooms[i], "id", 0) = room_id}
    IN IF hits = {} THEN <<>> ELSE Get(rooms[MinOf(hits)], "name", <<>>)

----------------------------------------------------------------------------
(* CrestronClient.get_devices: the aggregation of /rooms, /scenes,         *)
(* /devices and /shades into the list of device_info dicts (api.py         *)
(* 211-300).                                                               *)

\* a get_devices that leaves the join against the shades out
ShadePosition_NoJoin(shades, id) == 0

ShadePosition(shades, id) ==
    LET hits == {i \in 1..Len(shades) : Get(shades[i], "id", 0) = id}
    IN IF hits = {} THEN 0 ELSE Get(shades[MinOf(hits)], "position", 0)

ClientHaType(device_type) ==
    IF device_type = DEVICE_SUBTYPE_DIMMER \/ device_type = DEVICE_SUBTYPE_SWITCH
    THEN DEVICE_TYPE_LIGHT
    ELSE IF device_type = DEVICE_SUBTYPE_SHADE THEN DEVICE_TYPE_SHADE
    ELSE NoHaType

DeviceInfo(device, rooms, shades) ==
    LET room_name == RoomName(rooms, Get(device, "roomId", 0))
        device_type == OrElse(Get(device, "subType", <<>>), Get(device, "type", <<>>))
    IN [id |-> Get(device, "id", 0),
        type |-> device_type,
        subType |-> device_type,
        name |-> Joined(room_name, Get(device, "name", <<>>)),
        roomId |-> Get(device, "roomId", 0),
        roomName |-> room_name,
        level |-> Get(device, "level", 0),
        status |-> Get(device, "status", FALSE),
        position |-> IF device_type = DEVICE_SUBTYPE_SHADE
                     THEN ShadePosition(shades, Get(device, "id", 0))
                     ELSE 0,
        connectionStatus |-> Get(device, "connectionStatus", "online"),
        ha_device_type |-> ClientHaType(device_type)]

\* a get_devices that passes the scene's own type on as its type
SceneInfo_OwnType(scene, rooms) ==
    LET room_name == RoomName(rooms, Get(scene, "roomId", 0))
    IN [id |-> Get(scene, "id", 0),
        type |-> Get(scene, "type", <<>>),
        subType |-> Get(scene, "type", <<>>),
        sceneType |-> Get(scene, "type", <<>>),
        name |-> Joined(room_name, Get(scene, "name", <<>>)),
        roomId |-> Get(scene, "roomId", 0),
        roomName |-> room_name,
        level |-> 0,
        status |-> Get(scene, "status", FALSE),
        position |-> 0,
        connectionStatus |-> "n/a",
        ha_device_type |-> DEVICE_TYPE_SCENE]

SceneInfo(scene, rooms) ==
    LET room_name == RoomName(rooms, Get(scene, "roomId", 0))
    IN [id |-> Get(scene, "id", 0),
        type |-> DEVICE_SUBTYPE_SCENE,
        subType |-> DEVICE_SUBTYPE_SCENE,
        sceneType |-> Get(scene, "type", <<>>),
        name |-> Joined(room_name, Get(scene, "name", <<>>)),
        roomId |-> Get(scene, "roomId", 0),
        roomName |-> room_name,
        level |-> 0,
        status |-> Get(scene, "status", FALSE),
        position |-> 0,
        connectionStatus |-> "n/a",
        ha_device_type |-> DEVICE_TYPE_SCENE]

\* the test that admits a device_info to the result
DeviceAdmitted(info, enabled_types, ignored) ==
    /\ info.ha_device_type # NoHaType
    /\ info.ha_device_type \in enabled_types
    /\ ~_matches_ignored_pattern(info.name, info.type, ignored)

\* the test that admits a scene_info to the result
SceneAdmitted(info, ignored) ==
    ~_matches_ignored_pattern(info.name, info.sceneType, ignored)

GetDevicesResult(rooms, scenes_data, devices_data, shades, enabled_types, ignored) ==
    LET infos == [i \in 1..Len(devices_data) |-> DeviceInfo(devices_data[i], rooms, shades)]
        sinfos == [i \in 1..Len(scenes_data) |-> SceneInfo(scenes_data[i], rooms)]
        KeepDevice(info) == DeviceAdmitted(info, enabled_types, ignored)
        KeepScene(info) == SceneAdmitted(info, ignored)
    IN SelectSeq(infos, KeepDevice)
         \o (IF DEVICE_TYPE_SCENE \in enabled_types
             THEN SelectSeq(sinfos, KeepScene)
             ELSE <<>>)

----------------------------------------------------------------------------
(* CrestronClient.get_sensors: the filter applied to the answer of         *)
(* /sensors, with the room table the client holds when the answer arrives  *)
(* (api.py 362-391).                                                       *)

SensorDisplayName(sensor, rooms) ==
    LET room_id == Get(sensor, "roomId", 0)
        room_name == IF room_id # 0 THEN RoomName(rooms, room_id) ELSE <<>>
    IN Strip(Joined(room_name, Get(sensor, "name", <<>>)))

SensorAdmitted(sensor, rooms, ignored) ==
    ~_matches_ignored_pattern(SensorDisplayName(sensor, rooms),
                              Get(sensor, "subType", <<>>), ignored)

\* TRUE when get_sensors raises on the payload: the filter loop calls
\* sensor.get on every element, the unfiltered return does not
GetSensorsRaises(sensors, ignored) ==
    ignored # <<>> /\ \E i \in 1..Len(sensors) : IsMalformed(sensors[i])

\* a get_sensors that answers a failed GET with an empty list
GetSensorsOutcome_Swallow(ok, sensors, ignored) ==
    IF ok /\ GetSensorsRaises(sensors, ignored) THEN "raised" ELSE "done"

\* how get_sensors ends: the CrestronApiError of a failed GET leaves it
\* ("failed"), as does the AttributeError of the filter loop ("raised")
GetSensorsOutcome(ok, sensors, ignored) ==
    IF ~ok THEN "failed"
    ELSE IF GetSensorsRaises(sensors, ignored) THEN "raised"
    ELSE "done"

GetSensorsResult(sensors, rooms, ignored) ==
    LET Keep(sensor) == SensorAdmitted(sensor, rooms, ignored)
    IN IF ignored = <<>> THEN sensors ELSE SelectSeq(sensors, Keep)

----------------------------------------------------------------------------
(* CrestronDeviceManager (device_manager.py).  CrestronDevice objects live *)
(* in a heap, objs, a sequence indexed by object identity; self.devices    *)
(* maps a device id to the identity of its object.                         *)

NoValue == -1               \* CrestronDevice.value = None

\* device_type_mapping.get(t)
DeviceTypeMapping(t) ==
    IF t = DEVICE_SUBTYPE_DIMMER \/ t = DEVICE_SUBTYPE_SWITCH THEN DEVICE_TYPE_LIGHT
    ELSE IF t = DEVICE_SUBTYPE_SHADE THEN DEVICE_TYPE_SHADE
    ELSE IF t = DEVICE_SUBTYPE_SCENE THEN DEVICE_TYPE_SCENE
    ELSE IF t = DEVICE_SUBTYPE_OCCUPANCY_SENSOR \/ t = DEVICE_SUBTYPE_DOOR_SENSOR
    THEN DEVICE_TYPE_BINARY_SENSOR
    ELSE IF t = DEVICE_SUBTYPE_PHOTO_SENSOR THEN DEVICE_TYPE_SENSOR
    ELSE NoHaType

_get_ha_device_type(device_type, subtype) ==
    IF device_type = DEVICE_SUBTYPE_SCENE \/ subtype = DEVICE_SUBTYPE_SCENE
    THEN DEVICE_TYPE_SCENE
    ELSE IF DeviceTypeMapping(subtype) # NoHaType THEN DeviceTypeMapping(subtype)
    ELSE DeviceTypeMapping(device_type)

\* a manager for which only an online device is available
_update_ha_parameters_OnlineOnly(device) ==
    IF device.connection # "online"
    THEN [device EXCEPT !.ha_registry = TRUE, !.ha_state = FALSE,
                        !.ha_reason = "Device is offline"]
    ELSE [device EXCEPT !.ha_registry = TRUE, !.ha_state = TRUE, !.ha_reason = ""]

_update_ha_parameters(device) ==
    IF device.connection = "offline"
    THEN [device EXCEPT !.ha_registry = TRUE, !.ha_state = FALSE,
                        !.ha_reason = "Device is offline"]
    ELSE [device EXCEPT !.ha_registry = TRUE, !.ha_state = TRUE, !.ha_reason = ""]

\* the dataclass with its defaults (models.py)
CrestronDevice(id, room, name, type, subtype, status, level, connection, room_id, position, raw_data, t) ==
    [id |-> id, room |-> room, name |-> name, type |-> type, subtype |-> subtype,
     status |-> status, level |-> level, connection |-> connection,
     last_updated |-> t, ha_state |-> TRUE, ha_hidden |-> FALSE, ha_reason |-> "",
     ha_registry |-> FALSE, room_id |-> room_id, position |-> position,
     value |-> NoValue, unit |-> "", battery_level |-> "", presence |-> "",
     door_status |-> "", raw_data |-> raw_data]

\* models.py: full_name and is_available
full_name(device) == Strip(Joined(device.room, device.name))
\* a model for which only a device that reports online is available
is_available_OnlineOnly(device) == device.connection = "online"

is_available(device) == device.connection # "offline"

DataType(device_data) ==
    OrElse(Get(device_data, "subType", <<>>), Get(device_data, "type", <<>>))

\* _process_devices, the branch "Update existing device" (204-226)
UpdatedDevice(device, device_data, t) ==
    LET device_type == DataType(device_data)
    IN _update_ha_parameters(
         [device EXCEPT
            !.status = Get(device_data, "status", FALSE),
            !.level = Get(device_data, "level", 0),
            !.connection = IF device_type = DEVICE_SUBTYPE_SCENE
                           THEN "n/a"
                           ELSE Get(device_data, "connectionStatus", "online"),
            !.last_updated = t,
            !.position = IF device_type = DEVICE_SUBTYPE_SHADE
                         THEN Get(device_data, "position", 0)
                         ELSE @,
            !.raw_data = device_data])

\* _process_devices, the branch "Create new device" (228-251)
NewDevice(device_data, t) ==
    LET device_type == DataType(device_data)
    IN _update_ha_parameters(
         CrestronDevice(Get(device_data, "id", 0),
                        Get(device_data, "roomName", <<>>),
                        Get(device_data, "name", <<>>),
                        device_type, device_type,
                        Get(device_data, "status", FALSE),
                        Get(device_data, "level", 0),
                        IF device_type = DEVICE_SUBTYPE_SCENE
                        THEN "n/a"
                        ELSE Get(device_data, "connectionStatus", "online"),
                        Get(device_data, "roomId", 0),
                        IF device_type = DEVICE_SUBTYPE_SHADE
                        THEN Get(device_data, "position", 0)
                        ELSE 0,
                        device_data, t))

\* the sensor-specific properties, set alike on update and on creation
SensorProperties(sensor, sensor_data) ==
    LET sensor_type == Get(sensor_data, "subType", <<>>)
    IN IF sensor_type = DEVICE_SUBTYPE_OCCUPANCY_SENSOR
       THEN [sensor EXCEPT
               !.presence = Get(sensor_data, "presence", "Unavailable"),
               !.status = Get(sensor_data, "presence", "Unavailable")
                             \notin {"Vacant", "Unavailable"}]
       ELSE IF sensor_type = DEVICE_SUBTYPE_DOOR_SENSOR
       THEN [sensor EXCEPT
               !.door_status = Get(sensor_data, "door_status", "Closed"),
               !.battery_level = Get(sensor_data, "battery_level", "Normal"),
               !.status = Get(sensor_data, "door_status", "Closed") = "Open"]
       ELSE IF sensor_type = DEVICE_SUBTYPE_PHOTO_SENSOR
       THEN [sensor EXCEPT
               !.value = Get(sensor_data, "level", 0),
               !.level = Get(sensor_data, "level", 0)]
       ELSE sensor

\* _process_sensors, the branch "Update existing sensor" (289-310)
UpdatedSensor(sensor, sensor_data, t) ==
    _update_ha_parameters(
      SensorProperties(
        [sensor EXCEPT
           !.connection = Get(sensor_data, "connectionStatus", "online"),
           !.last_updated = t,
           !.raw_data = sensor_data],
        sensor_data))

\* _process_sensors, the branch "Create new sensor" (312-340)
NewSensor(sensor_data, rooms, t) ==
    LET room_id == Get(sensor_data, "roomId", 0)
        room_name == IF room_id # 0 THEN RoomName(rooms, room_id) ELSE <<>>
        sensor_type == Get(sensor_data, "subType", <<>>)
    IN _update_ha_parameters(
         SensorProperties(
           CrestronDevice(Get(sensor_data, "id", 0), room_name,
                          Get(sensor_data, "name", <<>>),
                          sensor_type, sensor_type, FALSE, 0,
                          Get(sensor_data, "connectionStatus", "online"),
                          room_id, 0, sensor_data, t),
           sensor_data))

\* The device map while a poll works on it: the heap, self.devices, and
\* whether a record raised.
\* "self.devices[device_id] = device" for a new object
StoreNew(st, id, device) ==
    [st EXCEPT !.objs = Append(st.objs, device),
               !.devices = [x \in DOMAIN st.devices \cup {id} |->
                              IF x = id THEN Len(st.objs) + 1 ELSE st.devices[x]]]

\* a manager that builds a fresh object for a known id
StoreExisting_Replace(st, id, device) ==
    [st EXCEPT !.objs = Append(st.objs, device),
               !.devices = [x \in DOMAIN st.devices |->
                              IF x = id THEN Len(st.objs) + 1 ELSE st.devices[x]]]

\* "device = self.devices[device_id]" followed by the field assignments:
\* the object the map already holds is overwritten
StoreExisting(st, id, device) ==
    [st EXCEPT !.objs = [st.objs EXCEPT ![st.devices[id]] = device]]

ProcessDevice(st, device_data, t) ==
    LET device_id == Get(device_data, "id", 0)
    IN IF device_id = 0 THEN st
       ELSE IF device_id \in DOMAIN st.devices
       THEN StoreExisting(st, device_id,
                          UpdatedDevice(st.objs[st.devices[device_id]], device_data, t))
       ELSE StoreNew(st, device_id, NewDevice(device_data, t))

ProcessSensor(st, sensor_data, rooms, t) ==
    LET sensor_id == Get(sensor_data, "id", 0)
    IN IF sensor_id = 0 THEN st
       ELSE IF sensor_id \in DOMAIN st.devices
       THEN StoreExisting(st, sensor_id,
                          UpdatedSensor(st.objs[st.devices[sensor_id]], sensor_data, t))
       ELSE StoreNew(st, sensor_id, NewSensor(sensor_data, rooms, t))

RECURSIVE _process_devices(_, _, _, _)
_process_devices(st, devices_data, i, t) ==
    IF i > Len(devices_data) THEN st
    ELSE _process_devices(ProcessDevice(st, devices_data[i], t), devices_data, i + 1, t)

\* a malformed element raises at sensor_data.get("id"): the loop stops and
\* the records merged so far stay merged
RECURSIVE _process_sensors(_, _, _, _, _)
_process_sensors(st, sensors_data, rooms, i, t) ==
    IF i > Len(sensors_data) THEN st
    ELSE IF IsMalformed(sensors_data[i]) THEN [st EXCEPT !.raised = TRUE]
    ELSE _process_sensors(ProcessSensor(st, sensors_data[i], rooms, t),
                          sensors_data, rooms, i + 1, t)

\* devices_by_type of poll_devices (153-164): per kind, the objects of
\* self.devices.values() in insertion order
RECURSIVE ObjectsOfKind(_, _, _, _)
ObjectsOfKind(objs_, refs, kind, i) ==
    IF i > Len(objs_) THEN <<>>
    ELSE (IF i \in refs /\ _get_ha_device_type(objs_[i].type, objs_[i].subtype) = kind
          THEN <<i>> ELSE <<>>)
         \o ObjectsOfKind(objs_, refs, kind, i + 1)

\* a manager that lists the objects of the latest poll only
DevicesByType_FreshOnly(objs_, devices_) ==
    LET Fresh == {devices_[id] : id \in {x \in DOMAIN devices_ :
                     \A y \in DOMAIN devices_ :
                         objs_[devices_[y]].last_updated <= objs_[devices_[x]].last_updated}}
    IN [kind \in HaTypes |-> ObjectsOfKind(objs_, Fresh, kind, 1)]

DevicesByType(objs_, devices_) ==
    [kind \in HaTypes |->
        ObjectsOfKind(objs_, {devices_[id] : id \in DOMAIN devices_}, kind, 1)]

\* the dict poll_devices returns from its except branch (178-184)
EmptyByType == [kind \in HaTypes |-> <<>>]

----------------------------------------------------------------------------
(* CrestronHomeDataUpdateCoordinator._async_update_data: the dict          *)
(* devices_by_type built from the two results of the gather                *)
(* (coordinator.py 86-164).                                                *)

room_update_frequency == 10

Circadian == <<"c", "i", "r", "c", "a", "d", "i", "a", "n">>

CoordSensorHaType(sub_type) ==
    IF sub_type = DEVICE_SUBTYPE_OCCUPANCY_SENSOR THEN DEVICE_TYPE_BINARY_SENSOR
    ELSE IF sub_type = DEVICE_SUBTYPE_DOOR_SENSOR THEN DEVICE_TYPE_BINARY_SENSOR
    ELSE IF sub_type = DEVICE_SUBTYPE_PHOTO_SENSOR THEN DEVICE_TYPE_SENSOR
    ELSE NoHaType

CoordSensorInfo(sensor, rooms) ==
    LET room_id == Get(sensor, "roomId", 0)
        room_name == IF room_id # 0 THEN RoomName(rooms, room_id) ELSE <<>>
        sub_type == Get(sensor, "subType", <<>>)
        base == [id |-> Get(sensor, "id", 0), type |-> sub_type, subType |-> sub_type,
                 name |-> Strip(Joined(room_name, Get(sensor, "name", <<>>))),
                 roomId |-> room_id, roomName |-> room_name,
                 ha_device_type |-> CoordSensorHaType(sub_type)]
    IN IF sub_type = DEVICE_SUBTYPE_OCCUPANCY_SENSOR
       THEN [presence |-> Get(sensor, "presence", "Unavailable")] @@ base
       ELSE IF sub_type = DEVICE_SUBTYPE_DOOR_SENSOR
       THEN [door_status |-> Get(sensor, "door_status", "Closed"),
             battery_level |-> Get(sensor, "battery_level", "Normal")] @@ base
       ELSE IF sub_type = DEVICE_SUBTYPE_PHOTO_SENSOR
       THEN [level |-> Get(sensor, "level", 0)] @@ base
       ELSE base

\* the test that appends a sensor_info to its by-kind list
CoordSensorAdmitted(info, enabled_types) ==
    /\ info.ha_device_type # NoHaType
    /\ info.ha_device_type \in enabled_types
    /\ ~Contains(Lower(info.name), Circadian)
    /\ ~Contains(Lower(info.subType), Circadian)

\* TRUE when the sensor loop raises: sensor.get on an element that is no object
CoordAggregationRaises(sensors_data, enabled_types) ==
    /\ DEVICE_TYPE_BINARY_SENSOR \in enabled_types \/ DEVICE_TYPE_SENSOR \in enabled_types
    /\ \E i \in 1..Len(sensors_data) : IsMalformed(sensors_data[i])

CoordDevicesByType(devices_data, sensors_data, rooms, enabled_types) ==
    LET infos == [i \in 1..Len(sensors_data) |-> CoordSensorInfo(sensors_data[i], rooms)]
        sensorsOn == DEVICE_TYPE_BINARY_SENSOR \in enabled_types
                        \/ DEVICE_TYPE_SENSOR \in enabled_types
    IN [kind \in HaTypes |->
          LET KeepDevice(d) == d.ha_device_type = kind
              KeepSensor(info) == /\ CoordSensorAdmitted(info, enabled_types)
                                  /\ info.ha_device_type = kind
          IN SelectSeq(devices_data, KeepDevice)
               \o (IF sensorsOn THEN SelectSeq(infos, KeepSensor) ELSE <<>>)]

\* {room.get("id"): room.get("name", "") for room in rooms} (coordinator.py 185)
RoomNamesOf(rooms) ==
    [rid \in {Get(rooms[i], "id", 0) : i \in 1..Len(rooms)} |->
        LET hits == {i \in 1..Len(rooms) : Get(rooms[i], "id", 0) = rid}
            last == CHOOSE i \in hits : \A j \in hits : j <= i
        IN Get(rooms[last], "name", <<>>)]

\* coordinator.data before the first successful cycle (None)
NoData == <<>>

----------------------------------------------------------------------------
(* The controller.  Its collections are what the GETs of a cycle answer;   *)
(* they change between and during cycles.                                  *)

Bath == <<"B", "a", "t", "h">>
Spa == <<"S", "p", "a">>
Lamp == <<"L", "a", "m", "p">>
Blind == <<"B", "l", "i", "n", "d">>
Movie == <<"M", "o", "v", "i", "e">>
Motion == <<"M", "o", "t", "i", "o", "n">>
Lux == <<"L", "u", "x">>
Fan == <<"F", "a", "n">>

\* a dimmer in room Bath, a shade that is in no room, a device of a subtype
\* the integration has no platform for, a shade scene, an occupancy sensor
\* and a photo sensor; the controller lists the live state of the dimmer
\* under lights and that of the shade under shades as well
BaseWorld ==
    [rooms |-> << [id |-> 1, name |-> Bath] >>,
     devices |-> << [id |-> 1, name |-> Lamp, type |-> DEVICE_SUBTYPE_DIMMER,
                     subType |-> DEVICE_SUBTYPE_DIMMER, roomId |-> 1,
                     level |-> 32768, status |-> TRUE,
                     connectionStatus |-> "online"],
                    [id |-> 2, name |-> Blind, type |-> DEVICE_SUBTYPE_SHADE,
                     subType |-> DEVICE_SUBTYPE_SHADE, level |-> 0,
                     status |-> FALSE, connectionStatus |-> "online"],
                    [id |-> 6, name |-> Fan, type |-> Fan, subType |-> Fan,
                     roomId |-> 1, level |-> 0, status |-> FALSE,
                     connectionStatus |-> "online"] >>,
     lights |-> << [id |-> 1, level |-> 32768, connectionStatus |-> "online"] >>,
     shades |-> << [id |-> 2, position |-> 65535, connectionStatus |-> "online"] >>,
     scenes |-> << [id |-> 3, name |-> Movie, type |-> DEVICE_SUBTYPE_SHADE,
                    roomId |-> 1, status |-> FALSE] >>,
     sensors |-> << [id |-> 4, name |-> Motion,
                     subType |-> DEVICE_SUBTYPE_OCCUPANCY_SENSOR, roomId |-> 1,
                     presence |-> "Occupied", connectionStatus |-> "online"],
                    [id |-> 5, name |-> Lux,
                     subType |-> DEVICE_SUBTYPE_PHOTO_SENSOR, roomId |-> 1,
                     level |-> 100, connectionStatus |-> "online"] >>]

\* an element of a collection that is not a JSON object
MalformedElement == [malformed |-> TRUE]

\* the first element of a collection, with one key set to a value
WithFirst(w, coll, k, v) ==
    IF Len(w[coll]) = 0 THEN w
    ELSE [w EXCEPT ![coll] = [@ EXCEPT ![1] = [x \in DOMAIN @ \cup {k} |->
                                                  IF x = k THEN v ELSE @[x]]]]

\* the first device is removed from the controller, its live state with it
WithoutFirstDevice(w) ==
    IF Len(w.devices) = 0 THEN w
    ELSE LET Other(l) == l.id # w.devices[1].id
         IN [w EXCEPT !.devices = Tail(@), !.lights = SelectSeq(@, Other)]

\* the changes the controller can undergo
WorldChanges(w) ==
    { WithFirst(WithFirst(WithFirst(w, "devices", "level", 0), "devices", "status", FALSE),
                "lights", "level", 0),
      WithFirst(WithFirst(w, "devices", "connectionStatus", "offline"),
                "lights", "connectionStatus", "offline"),
      WithFirst(w, "shades", "position", 0),
      WithFirst(w, "rooms", "name", Spa),
      WithFirst(w, "sensors", "presence", "Vacant"),
      WithoutFirstDevice(w),
      [w EXCEPT !.sensors = <<Head(@), MalformedElement>> \o Tail(@)] } \ {w}

\* the ignore patterns an installation may be configured with
LampOrBlind == << <<"%", "l", "a", "m", "p", "%">>, <<"b", "l", "i", "n", "d">> >>
BathPrefix == << <<"b", "a", "t", "h", "%">> >>
IgnoreConfigs == {<<>>, LampOrBlind, BathPrefix}

\* the collections a cycle GETs, and the collections the controller serves
Collections == {"rooms", "scenes", "devices", "shades", "sensors"}
ControllerCollections == Collections \cup {"lights"}
DeviceCollections == {"rooms", "scenes", "devices", "shades"}

\* the order of the GETs in the gather of get_devices (api.py 190-195)
GetOrder == [rooms |-> 1, scenes |-> 2, devices |-> 3, shades |-> 4, sensors |-> 5]

\* what calls _async_update_data: the update timer, a requested refresh
Triggers == {"timer", "refresh"}

\* enabled_device_types: every platform is enabled
EnabledTypes == HaTypes

----------------------------------------------------------------------------
(* login(): the validity check *)

SessionValid_Inclusive(key, last, t) ==
    key # NoKey /\ (t - last) <= CRESTRON_SESSION_TIMEOUT

SessionValid(key, last, t) ==
    key # NoKey /\ (t - last) < CRESTRON_SESSION_TIMEOUT

(* login(): the handling of the answer to GET /login.  The result is the   *)
(* session left behind and the exception raised ("" when login returns).   *)
(* A CrestronAuthError raised inside the try block is an Exception, is     *)
(* neither ClientConnectorError nor ClientResponseError, and is therefore  *)
(* caught by the last handler and raised again as CrestronApiError.        *)
LoginOutcome(answer, key, last, newkey, t) ==
    CASE answer = "login_ok" ->
            [auth_key |-> newkey, last_login |-> t, error |-> ""]
      [] answer = "login_nokey" ->
            [auth_key |-> NoKey, last_login |-> last, error |-> "CrestronApiError"]
      [] answer = "login_http_error" ->
            [auth_key |-> key, last_login |-> last, error |-> "CrestronAuthError"]
      [] answer = "login_connect_error" ->
            [auth_key |-> key, last_login |-> last, error |-> "CrestronConnectionError"]
      [] OTHER ->
            [auth_key |-> key, last_login |-> last, error |-> "CrestronApiError"]

(* _api_request(): the handling of the answer to the request *)
RequestOutcome_KeepsTtl(answer, key, last) ==
    CASE answer = "ok" ->
            [auth_key |-> key, last_login |-> last, error |-> ""]
      [] answer = "http_401" ->
            [auth_key |-> NoKey, last_login |-> last, error |-> "CrestronAuthError"]
      [] OTHER ->
            [auth_key |-> key, last_login |-> last, error |-> "CrestronApiError"]

RequestOutcome(answer, key, last) ==
    CASE answer = "ok" ->
            [auth_key |-> key, last_login |-> last, error |-> ""]
      [] answer = "http_401" ->
            [auth_key |-> NoKey, last_login |-> NoLogin, error |-> "CrestronAuthError"]
      [] OTHER ->
            [auth_key |-> key, last_login |-> last, error |-> "CrestronApiError"]

----------------------------------------------------------------------------
(* The session state machine *)

SessInit ==
    /\ auth_key = NoKey
    /\ last_login = NoLogin
    /\ now = StartTime
    /\ issued = 0
    /\ ticks = 0
    /\ pc = [c \in Callers |-> "idle"]
    /\ op = [c \in Callers |-> "request"]
    /\ current_time = [c \in Callers |-> 0]
    /\ req_key = [c \in Callers |-> NoKey]
    /\ branch = [c \in Callers |-> "none"]
    /\ resp = [c \in Callers |-> "none"]
    /\ result = [c \in Callers |-> "none"]

\* time passes
Tick ==
    /\ ticks < MaxTicks
    /\ \E d \in TickSteps : now' = now + d
    /\ ticks' = ticks + 1
    /\ UNCHANGED <<auth_key, last_login, issued, pc, op, current_time,
                   req_key, branch, resp, result>>
    /\ UNCHANGED <<pollVars, extraVars>>

\* A caller enters login(), alone or as the first statement of _api_request,
\* and runs to its first await: either the session is still valid and the
\* call goes on without a network login, or GET /login is sent.
CallStart(c, o) ==
    /\ pc[c] = "idle"
    /\ op' = [op EXCEPT ![c] = o]
    /\ resp' = [resp EXCEPT ![c] = "none"]
    /\ IF SessionValid(auth_key, last_login, now)
       THEN /\ branch' = [branch EXCEPT ![c] = "skip"]
            /\ UNCHANGED current_time
            /\ IF o = "login"
               THEN /\ pc' = [pc EXCEPT ![c] = "done"]
                    /\ result' = [result EXCEPT ![c] = "ok"]
                    /\ req_key' = [req_key EXCEPT ![c] = NoKey]
               ELSE /\ pc' = [pc EXCEPT ![c] = "request_sent"]
                    /\ result' = [result EXCEPT ![c] = "none"]
                    /\ req_key' = [req_key EXCEPT ![c] = auth_key]
       ELSE /\ branch' = [branch EXCEPT ![c] = "login"]
            /\ current_time' = [current_time EXCEPT ![c] = now]
            /\ pc' = [pc EXCEPT ![c] = "login_sent"]
            /\ result' = [result EXCEPT ![c] = "none"]
            /\ req_key' = [req_key EXCEPT ![c] = NoKey]
    /\ UNCHANGED <<auth_key, last_login, now, issued, ticks>>
    /\ UNCHANGED <<pollVars, extraVars>>

\* The answer to GET /login arrives; login() finishes and, inside
\* _api_request, the request is sent with the key the client holds now.
LoginAnswer(c, answer) ==
    /\ pc[c] = "login_sent"
    /\ answer = "login_ok" => issued < MaxKeys
    /\ LET out == LoginOutcome(answer, auth_key, last_login, issued + 1,
                               current_time[c])
       IN /\ auth_key' = out.auth_key
          /\ last_login' = out.last_login
          /\ issued' = IF answer = "login_ok" THEN issued + 1 ELSE issued
          /\ resp' = [resp EXCEPT ![c] = answer]
          /\ current_time' = [current_time EXCEPT ![c] = 0]
          /\ IF out.error # ""
             THEN /\ pc' = [pc EXCEPT ![c] = "done"]
                  /\ result' = [result EXCEPT ![c] = out.error]
                  /\ UNCHANGED req_key
             ELSE IF op[c] = "login"
             THEN /\ pc' = [pc EXCEPT ![c] = "done"]
                  /\ result' = [result EXCEPT ![c] = "ok"]
                  /\ UNCHANGED req_key
             ELSE IF out.auth_key = NoKey
             THEN /\ pc' = [pc EXCEPT ![c] = "done"]
                  /\ result' = [result EXCEPT ![c] = "CrestronAuthError"]
                  /\ UNCHANGED req_key
             ELSE /\ pc' = [pc EXCEPT ![c] = "request_sent"]
                  /\ req_key' = [req_key EXCEPT ![c] = out.auth_key]
                  /\ UNCHANGED result
    /\ UNCHANGED <<now, ticks, op, branch>>
    /\ UNCHANGED <<pollVars, extraVars>>

\* The answer to the authenticated request arrives.
RequestAnswer(c, answer) ==
    /\ pc[c] = "request_sent"
    /\ LET out == RequestOutcome(answer, auth_key, last_login)
       IN /\ auth_key' = out.auth_key
          /\ last_login' = out.last_login
          /\ result' = [result EXCEPT ![c] = IF out.error = "" THEN "ok" ELSE out.error]
    /\ resp' = [resp EXCEPT ![c] = answer]
    /\ pc' = [pc EXCEPT ![c] = "done"]
    /\ req_key' = [req_key EXCEPT ![c] = NoKey]
    /\ UNCHANGED <<now, issued, ticks, op, current_time, branch>>
    /\ UNCHANGED <<pollVars, extraVars>>

\* The caller has its result; it may call again.
CallReturn(c) ==
    /\ pc[c] = "done"
    /\ pc' = [pc EXCEPT ![c] = "idle"]
    /\ op' = [op EXCEPT ![c] = "request"]
    /\ current_time' = [current_time EXCEPT ![c] = 0]
    /\ req_key' = [req_key EXCEPT ![c] = NoKey]
    /\ branch' = [branch EXCEPT ![c] = "none"]
    /\ resp' = [resp EXCEPT ![c] = "none"]
    /\ result' = [result EXCEPT ![c] = "none"]
    /\ UNCHANGED <<auth_key, last_login, now, issued, ticks>>
    /\ UNCHANGED <<pollVars, extraVars>>

SessNext ==
    \/ Tick
    \/ \E c \in Callers, o \in {"login", "request"} : CallStart(c, o)
    \/ \E c \in Callers, a \in LoginAnswers : LoginAnswer(c, a)
    \/ \E c \in Callers, a \in RequestAnswers : RequestAnswer(c, a)
    \/ \E c \in Callers : CallReturn(c)

----------------------------------------------------------------------------
(* The poll cycle.  A cycle is one run of poll_devices (device manager) or *)
(* of _async_update_data (coordinator): asyncio.gather over get_devices,   *)
(* itself a gather over four GETs, and get_sensors, one GET.  A cycle      *)
(* starts when no GET of an earlier cycle is still in flight.              *)

MaxPolls == 3       \* cycles in one behaviour
MaxChanges == 1     \* changes of the controller in one behaviour

WorldInit ==
    /\ world = BaseWorld
    /\ changes = 0
    /\ ignored_device_names \in IgnoreConfigs

\* a controller that numbers each collection on its own: the scene has the
\* id of the dimmer and the occupancy sensor the id of the shade
SharedIdWorld ==
    [BaseWorld EXCEPT !.scenes = << [@[1] EXCEPT !.id = 1] >>,
                      !.sensors = << [@[1] EXCEPT !.id = 2], @[2] >>]

SharedIdInit ==
    /\ world = SharedIdWorld
    /\ changes = 0
    /\ ignored_device_names \in IgnoreConfigs

\* a controller on which nothing is configured yet
EmptyWorld == [e \in ControllerCollections |-> <<>>]

NoIgnoreInit ==
    /\ world = EmptyWorld
    /\ changes = 0
    /\ ignored_device_names = <<>>

FetchInit ==
    /\ client_rooms = <<>>
    /\ fetch = [e \in ControllerCollections |-> "idle"]
    /\ recv = [e \in ControllerCollections |-> <<>>]
    /\ gd = "idle"
    /\ gd_result = <<>>
    /\ gs = "idle"
    /\ gs_result = <<>>
    /\ cycle = "idle"
    /\ polls = 0
    /\ failed = {}

DMInit ==
    /\ objs = <<>>
    /\ devices = <<>>
    /\ previous_devices = <<>>
    /\ dm_result = EmptyByType
    /\ dm_outcome = "none"
    /\ last_poll_time = 0
    /\ last_input = <<>>

\* the coordinator after construction
CoordFresh ==
    /\ update_counter = 0
    /\ refresh_rooms = FALSE
    /\ coord_devices = <<>>
    /\ room_names = <<>>
    /\ data = NoData
    /\ last_update_success = TRUE
    /\ aggregated = 0

\* the coordinator after construction, or after eight cycles in which every
\* GET failed: nothing but update_counter and last_update_success has moved
CoordInit ==
    /\ update_counter \in {0, room_update_frequency - MaxPolls}
    /\ refresh_rooms = FALSE
    /\ coord_devices = <<>>
    /\ room_names = <<>>
    /\ data = NoData
    /\ last_update_success = (update_counter = 0)
    /\ aggregated = 0

\* the controller changes
ControllerChange ==
    /\ changes < MaxChanges
    /\ \E w \in WorldChanges(world) : world' = w
    /\ changes' = changes + 1
    /\ UNCHANGED <<ignored_device_names, fetchVars, dmVars, coordVars, sessVars, extraVars>>

\* a device the controller lists as offline is back online
ControllerRecovers ==
    /\ Len(world.devices) > 0
    /\ Get(world.devices[1], "connectionStatus", "online") = "offline"
    /\ world' = WithFirst(WithFirst(world, "devices", "connectionStatus", "online"),
                          "lights", "connectionStatus", "online")
    /\ UNCHANGED <<changes, ignored_device_names, fetchVars, dmVars, coordVars,
                   sessVars, extraVars>>

\* asyncio.gather(get_devices, get_sensors): both coroutines run to their
\* first await, the five GETs are in flight
StartGather ==
    /\ cycle = "idle"
    /\ gd # "running"
    /\ polls < MaxPolls
    /\ polls' = polls + 1
    /\ cycle' = "gathering"
    /\ fetch' = [e \in ControllerCollections |->
                    IF e \in Collections THEN "pending" ELSE "idle"]
    /\ recv' = [e \in ControllerCollections |-> <<>>]
    /\ gd' = "running"
    /\ gs' = "running"
    /\ gd_result' = <<>>
    /\ gs_result' = <<>>
    /\ failed' = {}
    /\ UNCHANGED client_rooms

\* The answer to one GET arrives (ok) or the GET fails (~ok), and the
\* coroutine that awaited it runs on.  get_devices returns [] at the first
\* failure of one of its GETs and otherwise, with the fourth answer, stores
\* the rooms and returns its list; get_sensors filters with the rooms the
\* client holds at that moment, or raises.  What get_devices returns after
\* the cycle has ended is dropped.  get_devices looks at the four answers
\* only when all of them are there, so they are taken in one order.
Arrive(e, ok) ==
    /\ fetch[e] = "pending"
    /\ e \in DeviceCollections =>
          \A x \in DeviceCollections : GetOrder[x] < GetOrder[e] => fetch[x] = "ok"
    /\ LET payload == world[e]
           recv1 == [recv EXCEPT ![e] = IF ok THEN payload ELSE <<>>]
           isGD == e \in DeviceCollections
           gdDone == isGD /\ (~ok \/ \A x \in DeviceCollections \ {e} : fetch[x] = "ok")
           gdOk == gdDone /\ ok
           isGS == e = "sensors"
       IN /\ recv' = recv1
          /\ failed' = IF ok THEN failed ELSE failed \cup {e}
          /\ fetch' = IF gdDone
                      THEN [x \in ControllerCollections |->
                              IF x \in DeviceCollections THEN "idle" ELSE fetch[x]]
                      ELSE [fetch EXCEPT ![e] = IF isGS THEN "idle" ELSE "ok"]
          /\ client_rooms' = IF gdOk THEN recv1["rooms"] ELSE client_rooms
          /\ gd' = IF gdDone THEN "done" ELSE gd
          /\ gd_result' =
                IF gdOk /\ cycle = "gathering"
                THEN GetDevicesResult(recv1["rooms"], recv1["scenes"], recv1["devices"],
                                      recv1["shades"], EnabledTypes, ignored_device_names)
                ELSE IF gdDone THEN <<>> ELSE gd_result
          /\ gs' = IF isGS THEN GetSensorsOutcome(ok, payload, ignored_device_names)
                   ELSE gs
          /\ gs_result' =
                IF isGS /\ ok /\ ~GetSensorsRaises(payload, ignored_device_names)
                THEN GetSensorsResult(payload, client_rooms, ignored_device_names)
                ELSE gs_result
    /\ UNCHANGED polls

GatherRaised_ParseOnly == cycle = "gathering" /\ gs' = "raised"

GatherRaised == cycle = "gathering" /\ gs' \in {"failed", "raised"}
GatherReturned == cycle = "gathering" /\ gd' = "done" /\ gs' = "done"

----------------------------------------------------------------------------
(* CrestronDeviceManager.poll_devices *)

\* poll_devices up to the await of the gather (120-131)
ManagerPollStart ==
    /\ StartGather
    /\ previous_devices' = [id \in DOMAIN devices |-> objs[devices[id]]]
    /\ dm_outcome' = "none"
    /\ UNCHANGED <<objs, devices, dm_result, last_poll_time, last_input>>
    /\ UNCHANGED <<worldVars, coordVars, sessVars, extraVars>>

\* poll_devices after the gather (133-184): a CrestronApiError of
\* get_sensors is answered with the empty dict, any other exception leaves
\* poll_devices, and two results are merged into the device map
ManagerResume ==
    IF cycle = "gathering" /\ gs' = "failed"
    THEN /\ cycle' = "idle"
         /\ dm_result' = EmptyByType
         /\ dm_outcome' = "empty"
         /\ UNCHANGED <<objs, devices, previous_devices, last_poll_time, last_input>>
    ELSE IF cycle = "gathering" /\ gs' = "raised"
    THEN /\ cycle' = "idle"
         /\ dm_outcome' = "raised"
         /\ UNCHANGED <<objs, devices, previous_devices, dm_result,
                        last_poll_time, last_input>>
    ELSE IF GatherReturned
    THEN \E st2 \in {_process_sensors(
                         _process_devices(
                            [objs |-> objs, devices |-> devices, raised |-> FALSE],
                            gd_result', 1, polls),
                         gs_result', client_rooms', 1, polls)} :
            /\ cycle' = "idle"
            /\ objs' = st2.objs
            /\ devices' = st2.devices
            /\ UNCHANGED previous_devices
            /\ IF st2.raised
               THEN /\ dm_outcome' = "raised"
                    /\ UNCHANGED <<dm_result, last_poll_time, last_input>>
               ELSE /\ dm_outcome' = "ok"
                    /\ dm_result' = DevicesByType(st2.objs, st2.devices)
                    /\ last_poll_time' = polls
                    /\ last_input' = recv'
    ELSE UNCHANGED <<cycle, dmVars>>

ManagerFetchOk(e) ==
    /\ Arrive(e, TRUE)
    /\ ManagerResume
    /\ UNCHANGED <<worldVars, coordVars, sessVars, extraVars>>

ManagerFetchFail(e) ==
    /\ Arrive(e, FALSE)
    /\ ManagerResume
    /\ UNCHANGED <<worldVars, coordVars, sessVars, extraVars>>

DMNext ==
    \/ ControllerChange
    \/ ControllerRecovers
    \/ ManagerPollStart
    \/ \E e \in Collections : ManagerFetchOk(e)
    \/ \E e \in Collections : ManagerFetchFail(e)

----------------------------------------------------------------------------
(* CrestronHomeDataUpdateCoordinator._async_update_data, run by the        *)
(* DataUpdateCoordinator: a returned dict becomes coordinator.data and     *)
(* sets last_update_success, UpdateFailed clears last_update_success and   *)
(* leaves coordinator.data as it is.                                       *)

\* _async_update_data up to the await of the gather (61-74)
CoordStart ==
    /\ StartGather
    /\ update_counter' = update_counter + 1
    /\ refresh_rooms' = ((update_counter + 1) % room_update_frequency = 0)
    /\ UNCHANGED <<coord_devices, room_names, data, last_update_success, aggregated>>
    /\ UNCHANGED <<worldVars, dmVars, sessVars, extraVars>>

\* a coordinator that publishes nothing once a cycle has failed
Aggregate_NeedsReset(devices_data, sensors_data, rooms) ==
    /\ coord_devices' = devices_data
    /\ aggregated' = aggregated + 1
    /\ IF CoordAggregationRaises(sensors_data, EnabledTypes) \/ ~last_update_success
       THEN /\ last_update_success' = FALSE
            /\ UNCHANGED data
       ELSE /\ last_update_success' = TRUE
            /\ data' = CoordDevicesByType(devices_data, sensors_data, rooms, EnabledTypes)

\* lines 80-164, and what the DataUpdateCoordinator does with the outcome
Aggregate(devices_data, sensors_data, rooms) ==
    /\ coord_devices' = devices_data
    /\ aggregated' = aggregated + 1
    /\ IF CoordAggregationRaises(sensors_data, EnabledTypes)
       THEN /\ last_update_success' = FALSE
            /\ UNCHANGED data
       ELSE /\ last_update_success' = TRUE
            /\ data' = CoordDevicesByType(devices_data, sensors_data, rooms, EnabledTypes)

CoordResume ==
    IF GatherRaised
    THEN /\ cycle' = "idle"
         /\ last_update_success' = FALSE
         /\ UNCHANGED <<coord_devices, room_names, data, aggregated>>
    ELSE IF GatherReturned
    THEN IF refresh_rooms
         THEN /\ cycle' = "refreshing"
              /\ UNCHANGED <<coord_devices, room_names, data, last_update_success,
                             aggregated>>
         ELSE /\ cycle' = "idle"
              /\ Aggregate(gd_result', gs_result', client_rooms')
              /\ UNCHANGED room_names
    ELSE UNCHANGED <<cycle, coord_devices, room_names, data, last_update_success,
                     aggregated>>

CoordFetchOk(e) ==
    /\ Arrive(e, TRUE)
    /\ CoordResume
    /\ UNCHANGED <<update_counter, refresh_rooms>>
    /\ UNCHANGED <<worldVars, dmVars, sessVars, extraVars>>

CoordFetchFail(e) ==
    /\ Arrive(e, FALSE)
    /\ CoordResume
    /\ UNCHANGED <<update_counter, refresh_rooms>>
    /\ UNCHANGED <<worldVars, dmVars, sessVars, extraVars>>

\* room_changes of _refresh_room_names (187-197): per room of the answer,
\* in the order of the dict, the change from a name that was known
RECURSIVE RoomChanges(_, _, _)
RoomChanges(old_names, rooms, i) ==
    IF i > Len(rooms) THEN <<>>
    ELSE LET room_id == Get(rooms[i], "id", 0)
             new_name == RoomNamesOf(rooms)[room_id]
             first == \A j \in 1..(i - 1) : Get(rooms[j], "id", 0) # room_id
         IN (IF first /\ room_id \in DOMAIN old_names /\ old_names[room_id] # new_name
             THEN << [room_id |-> room_id, old_name |-> old_names[room_id],
                      new_name |-> new_name] >>
             ELSE <<>>)
            \o RoomChanges(old_names, rooms, i + 1)

\* _refresh_room_names with the list get_rooms returned (180-206): the
\* changes are logged and the stored names replaced; self.entities is empty,
\* register_entity having no caller, so the loop over it runs no step
_refresh_room_names(rooms) ==
    /\ room_log' = room_log \o RoomChanges(room_names, rooms, 1)
    /\ room_names' = RoomNamesOf(rooms)

\* _refresh_room_names, get_rooms answered: the rooms are stored, then the
\* cycle aggregates
RefreshOk ==
    /\ cycle = "refreshing"
    /\ cycle' = "idle"
    /\ client_rooms' = world.rooms
    /\ _refresh_room_names(world.rooms)
    /\ Aggregate(gd_result, gs_result, world.rooms)
    /\ UNCHANGED <<fetch, recv, gd, gd_result, gs, gs_result, polls, failed>>
    /\ UNCHANGED <<update_counter, refresh_rooms>>
    /\ UNCHANGED <<worldVars, dmVars, sessVars>>
    /\ UNCHANGED <<matchVars, entityVars, codecVars, setupVars, refreshes>>

\* _refresh_room_names, GET /rooms failed: get_rooms returns [] and the
\* cycle aggregates with the rooms the client held
RefreshFail ==
    /\ cycle = "refreshing"
    /\ cycle' = "idle"
    /\ _refresh_room_names(<<>>)
    /\ failed' = failed \cup {"rooms"}
    /\ Aggregate(gd_result, gs_result, client_rooms)
    /\ UNCHANGED <<client_rooms, fetch, recv, gd, gd_result, gs, gs_result, polls>>
    /\ UNCHANGED <<update_counter, refresh_rooms>>
    /\ UNCHANGED <<worldVars, dmVars, sessVars>>
    /\ UNCHANGED <<matchVars, entityVars, codecVars, setupVars, refreshes>>

----------------------------------------------------------------------------
(* The room refresh on its own: the refreshes of the cycles whose counter  *)
(* is a multiple of room_update_frequency, without the cycles between.     *)

MaxRefreshes == 4   \* room refreshes in one behaviour

RoomIdle ==
    /\ room_log = <<>>
    /\ refreshes = 0

\* the coordinator after construction, or after the cycle of its first
\* room refresh, which was answered: the names of the rooms are known
RoomsCoordInit ==
    /\ update_counter \in {0, room_update_frequency}
    /\ refresh_rooms = (update_counter # 0)
    /\ coord_devices = <<>>
    /\ room_names = IF update_counter = 0 THEN <<>> ELSE RoomNamesOf(BaseWorld.rooms)
    /\ data = IF update_counter = 0 THEN NoData ELSE EmptyByType
    /\ last_update_success = TRUE
    /\ aggregated = IF update_counter = 0 THEN 0 ELSE 1

\* the cycles up to the next one whose counter is a multiple of
\* room_update_frequency (63-66)
NextRefreshCycle ==
    /\ update_counter' = update_counter - (update_counter % room_update_frequency)
                            + room_update_frequency
    /\ refresh_rooms' = TRUE

\* get_rooms answered (api.py 400-405) and _refresh_room_names
RoomRefreshOk ==
    /\ refreshes < MaxRefreshes
    /\ refreshes' = refreshes + 1
    /\ NextRefreshCycle
    /\ client_rooms' = world.rooms
    /\ _refresh_room_names(world.rooms)
    /\ UNCHANGED <<fetch, recv, gd, gd_result, gs, gs_result, cycle, polls, failed>>
    /\ UNCHANGED <<coord_devices, data, last_update_success, aggregated>>
    /\ UNCHANGED <<worldVars, dmVars, sessVars>>
    /\ UNCHANGED <<matchVars, entityVars, codecVars, setupVars>>

\* get_rooms caught the error of its GET and returned [] (api.py 406-408)
RoomRefreshFail ==
    /\ refreshes < MaxRefreshes
    /\ refreshes' = refreshes + 1
    /\ NextRefreshCycle
    /\ _refresh_room_names(<<>>)
    /\ UNCHANGED fetchVars
    /\ UNCHANGED <<coord_devices, data, last_update_success, aggregated>>
    /\ UNCHANGED <<worldVars, dmVars, sessVars>>
    /\ UNCHANGED <<matchVars, entityVars, codecVars, setupVars>>

RoomsNext ==
    \/ ControllerChange
    \/ RoomRefreshOk
    \/ RoomRefreshFail

CoordNext ==
    \/ ControllerChange
    \/ ControllerRecovers
    \/ CoordStart
    \/ \E e \in Collections : CoordFetchOk(e)
    \/ \E e \in Collections : CoordFetchFail(e)
    \/ RefreshOk
    \/ RefreshFail

----------------------------------------------------------------------------
(* The ignore-pattern matcher on its own: a name and a type are matched    *)
(* against a pattern list that grows one pattern at a time.                *)

\* the display names and types the matcher is called with
MatchNames == {<<>>, <<"a">>, <<"A">>, <<"b">>, <<"a", "b">>, <<"A", "b">>, <<"b", "a">>, <<"b", "A">>, <<"a", "a">>}
MatchTypes == {<<"b">>, <<"b", "A">>}

\* the characters of a pattern, and the patterns of up to MaxPatternLen of them
PatternChars == {"%", "A"}
PatternsOfLen(n) == [1..n -> PatternChars]
Patterns == UNION {PatternsOfLen(n) : n \in 0..MaxPatternLen}

\* no matcher call under way
MatchIdle ==
    /\ match_name = <<>>
    /\ match_type = <<>>
    /\ match_patterns = <<>>
    /\ match_result = FALSE

\* the matcher called with no pattern configured
MatchInit ==
    /\ match_name \in MatchNames
    /\ match_type \in MatchTypes
    /\ match_patterns = <<>>
    /\ match_result = _matches_ignored_pattern(match_name, match_type, <<>>)

\* one more pattern is configured and the matcher is called again
ConfigurePattern(p) ==
    /\ Len(match_patterns) < MaxPatterns
    /\ match_patterns' = Append(match_patterns, p)
    /\ match_result' = _matches_ignored_pattern(match_name, match_type,
                                                 Append(match_patterns, p))
    /\ UNCHANGED <<match_name, match_type, entityVars, codecVars, setupVars, roomVars, sessVars, pollVars>>

MatchNext == \E p \in Patterns : ConfigurePattern(p)

----------------------------------------------------------------------------
(* The level conversions of CrestronClient (api.py 410-422).  round() of   *)
(* Python rounds a half to the even neighbour.                             *)

CRESTRON_MAX_LEVEL == 65535

\* round(n / d) for n >= 0 and d > 0
\* a rounding that drops the fraction, as int() does
RoundHalfEven_Truncate(n, d) == n \div d

RoundHalfEven(n, d) ==
    LET q == n \div d
        r == n % d
    IN IF 2 * r < d THEN q
       ELSE IF 2 * r > d THEN q + 1
       ELSE IF q % 2 = 0 THEN q ELSE q + 1

\* a conversion that takes the high bits of the level for the percentage
crestron_to_percentage_Shift(value) ==
    IF value <= 0 THEN 0 ELSE (value * 100) \div (CRESTRON_MAX_LEVEL + 1)

crestron_to_percentage(value) ==
    IF value <= 0 THEN 0 ELSE RoundHalfEven(value * 100, CRESTRON_MAX_LEVEL)

percentage_to_crestron(value) ==
    IF value <= 0 THEN 0 ELSE RoundHalfEven(CRESTRON_MAX_LEVEL * value, 100)

\* The conversions on their own: a level is converted to a percentage and
\* back, as async_stop_cover does with the position it reads (cover.py
\* 150-159), or a percentage is converted to a level and read back as a
\* percentage, as after async_set_cover_position (cover.py 113-125, 161-170).
Levels == 0..CRESTRON_MAX_LEVEL
Percentages == 0..100

CodecIdle ==
    /\ codec_kind = "none"
    /\ codec_step = 0
    /\ codec_in = 0
    /\ codec_mid = 0
    /\ codec_out = 0

CodecInit ==
    /\ codec_kind \in {"level", "percentage"}
    /\ codec_step = 0
    /\ codec_in \in (IF codec_kind = "level" THEN Levels ELSE Percentages)
    /\ codec_mid = 0
    /\ codec_out = 0

ConvertFirst ==
    /\ codec_step = 0
    /\ codec_kind # "none"
    /\ codec_step' = 1
    /\ codec_mid' = IF codec_kind = "level"
                    THEN crestron_to_percentage(codec_in)
                    ELSE percentage_to_crestron(codec_in)
    /\ UNCHANGED <<codec_kind, codec_in, codec_out>>
    /\ UNCHANGED <<matchVars, entityVars, setupVars, roomVars, sessVars, pollVars>>

ConvertBack ==
    /\ codec_step = 1
    /\ codec_step' = 2
    /\ codec_out' = IF codec_kind = "level"
                    THEN percentage_to_crestron(codec_mid)
                    ELSE crestron_to_percentage(codec_mid)
    /\ UNCHANGED <<codec_kind, codec_in, codec_mid>>
    /\ UNCHANGED <<matchVars, entityVars, setupVars, roomVars, sessVars, pollVars>>

CodecNext == ConvertFirst \/ ConvertBack

----------------------------------------------------------------------------
(* async_setup_entry (__init__.py 40-66) reads the update interval of the  *)
(* config entry and constructs the coordinator with it; the coordinator    *)
(* hands timedelta(seconds=update_interval) to DataUpdateCoordinator       *)
(* (coordinator.py 52-57).                                                 *)

DEFAULT_UPDATE_INTERVAL == 15
MIN_UPDATE_INTERVAL == 10
MaxInterval == 60       \* the largest configured interval, in seconds
NoInterval == -1

SetupIdle ==
    /\ entry_interval = NoInterval
    /\ setup_pc = "idle"
    /\ update_interval = NoInterval
    /\ coord_interval = NoInterval

SetupInit ==
    /\ entry_interval \in {NoInterval} \cup 0..MaxInterval
    /\ setup_pc = "start"
    /\ update_interval = NoInterval
    /\ coord_interval = NoInterval

\* entry.data.get(CONF_UPDATE_INTERVAL, DEFAULT_UPDATE_INTERVAL)
ReadInterval ==
    /\ setup_pc = "start"
    /\ setup_pc' = "read"
    /\ update_interval' = IF entry_interval = NoInterval
                          THEN DEFAULT_UPDATE_INTERVAL
                          ELSE entry_interval
    /\ UNCHANGED <<entry_interval, coord_interval>>
    /\ UNCHANGED <<matchVars, entityVars, codecVars, roomVars, sessVars, pollVars>>

\* CrestronHomeDataUpdateCoordinator.__init__: super().__init__(...,
\* update_interval=timedelta(seconds=update_interval)). The body of the
\* constructor is followed for a call with the four arguments of its
\* signature; the call at __init__.py 64-66 passes a fifth.
ConstructCoordinator ==
    /\ setup_pc = "read"
    /\ setup_pc' = "constructed"
    /\ coord_interval' = update_interval
    /\ UNCHANGED <<entry_interval, update_interval>>
    /\ UNCHANGED <<matchVars, entityVars, codecVars, roomVars, sessVars, pollVars>>

SetupNext == ReadInterval \/ ConstructCoordinator

----------------------------------------------------------------------------
(* The entities (light.py, cover.py, scene.py) and the two triggers of a   *)
(* cycle.  A command handler awaits the POST of the client and then calls  *)
(* coordinator.async_request_refresh; the update timer and a requested     *)
(* refresh each call _async_update_data.                                   *)

\* one entity per platform: the dimmer, the shade and the scene of BaseWorld
Entities == {DEVICE_TYPE_LIGHT, DEVICE_TYPE_SHADE, DEVICE_TYPE_SCENE}
EntityDevice ==
    [e \in Entities |->
        IF e = DEVICE_TYPE_LIGHT THEN [id |-> 1, level |-> 32768]
        ELSE IF e = DEVICE_TYPE_SHADE THEN [id |-> 2, position |-> 65535]
        ELSE [id |-> 3]]

\* the command handlers of an entity
CommandsOf(e) ==
    IF e = DEVICE_TYPE_LIGHT THEN {"async_turn_on", "async_turn_off"}
    ELSE IF e = DEVICE_TYPE_SHADE
    THEN {"async_open_cover", "async_close_cover", "async_stop_cover",
          "async_set_cover_position"}
    ELSE {"async_activate"}

\* kwargs of async_set_cover_position: no ATTR_POSITION, or a position
NoPosition == -1
PositionArgs == {NoPosition, 50}

\* the answers of the controller to a POST
PostAnswers == {"ok", "http_401", "http_error"}

NoRequest == <<>>

\* the status in the body of a 200 answer to a POST, and the ids it lists
\* as failed
PostStatuses == {"success", "partial", "failure"}
FailedIds(status, request) == IF status = "success" THEN {} ELSE {request.id}

\* what set_light_state, set_shade_position and execute_scene return
\* (api.py 317-345): the body _api_request returns is dropped, the value
\* is None whatever the answer says
NoReport == [status |-> "none", failed |-> {}]
CommandReport(status, failed_ids) == NoReport

\* the property current_cover_position (cover.py 112-124): the elements of
\* coordinator.data are the dicts of get_devices, device.id on one of them
\* raises AttributeError, and so does .get on a coordinator.data of None
current_cover_position(d, device) ==
    IF d = NoData THEN [error |-> "AttributeError", value |-> 0]
    ELSE IF Len(d[DEVICE_TYPE_SHADE]) > 0 THEN [error |-> "AttributeError", value |-> 0]
    ELSE [error |-> "", value |-> crestron_to_percentage(device.position)]

\* the property is_closed (cover.py 127-130)
is_closed(d, device) ==
    LET p == current_cover_position(d, device)
    IN [error |-> p.error, value |-> (p.error = "" /\ p.value = 0)]

\* what a handler does before its first await: it sends a POST, returns
\* without one, or raises
HandlerRequest(e, name, position, d) ==
    LET id == EntityDevice[e].id
        Post(path, value) == [kind |-> "post", path |-> path, id |-> id, value |-> value]
    IN CASE name = "async_turn_on" ->
              Post("/lights/setstate", percentage_to_crestron(100))
         [] name = "async_turn_off" ->
              Post("/lights/setstate", 0)
         [] name = "async_open_cover" ->
              Post("/shades/setstate", percentage_to_crestron(100))
         [] name = "async_close_cover" ->
              Post("/shades/setstate", 0)
         [] name = "async_stop_cover" ->
              LET current_position == current_cover_position(d, EntityDevice[e])
              IN IF current_position.error # ""
                 THEN [kind |-> "raise", path |-> "", id |-> id, value |-> 0]
                 ELSE Post("/shades/setstate",
                           percentage_to_crestron(current_position.value))
         [] name = "async_set_cover_position" ->
              IF position = NoPosition
              THEN [kind |-> "return", path |-> "", id |-> id, value |-> 0]
              ELSE Post("/shades/setstate", percentage_to_crestron(position))
         [] OTHER ->
              Post("/scenes/recall", 0)

\* the two awaits of a command handler, in the order of the code
CommandSteps_RefreshFirst == <<"refresh", "post">>

CommandSteps == <<"post", "refresh">>

\* the calls of async_request_refresh a handler makes before it awaits its
\* POST, and those it makes once the POST has returned
RefreshesBeforePost ==
    Cardinality({i \in 1..Len(CommandSteps) :
                    /\ CommandSteps[i] = "refresh"
                    /\ \A j \in 1..i : CommandSteps[j] # "post"})
RefreshesAfterPost ==
    Cardinality({i \in 1..Len(CommandSteps) :
                    /\ CommandSteps[i] = "refresh"
                    /\ \E j \in 1..i : CommandSteps[j] = "post"})

\* async_request_refresh is called n times
RequestRefresh(n) ==
    /\ refresh_requests' = refresh_requests + n
    /\ refresh_pending' = (refresh_pending \/ n > 0)

\* no entity has been commanded, no cycle is running
EntityIdle ==
    /\ cmd_name = [e \in Entities |-> "none"]
    /\ cmd_state = [e \in Entities |-> "idle"]
    /\ post_request = [e \in Entities |-> NoRequest]
    /\ post_status = [e \in Entities |-> "none"]
    /\ cmd_report = [e \in Entities |-> NoReport]
    /\ commands = 0
    /\ refresh_requests = 0
    /\ refresh_pending = FALSE
    /\ run_pc = [t \in Triggers |-> "idle"]

\* a command handler is called and runs to the await of its POST
CommandCall(e, name, position) ==
    /\ commands < MaxCommands
    /\ cmd_state[e] # "awaiting_post"
    /\ name \in CommandsOf(e)
    /\ name # "async_set_cover_position" => position = NoPosition
    /\ commands' = commands + 1
    /\ cmd_name' = [cmd_name EXCEPT ![e] = name]
    /\ post_status' = [post_status EXCEPT ![e] = "none"]
    /\ cmd_report' = [cmd_report EXCEPT ![e] = NoReport]
    /\ \E request \in {HandlerRequest(e, name, position, data)} :
          IF request.kind = "return"
          THEN /\ cmd_state' = [cmd_state EXCEPT ![e] = "unsent"]
               /\ UNCHANGED <<post_request, refresh_requests, refresh_pending>>
          ELSE IF request.kind = "raise"
          THEN /\ cmd_state' = [cmd_state EXCEPT ![e] = "raised"]
               /\ UNCHANGED <<post_request, refresh_requests, refresh_pending>>
          ELSE /\ cmd_state' = [cmd_state EXCEPT ![e] = "awaiting_post"]
               /\ post_request' = [post_request EXCEPT ![e] = request]
               /\ RequestRefresh(RefreshesBeforePost)
    /\ UNCHANGED <<run_pc, matchVars, codecVars, setupVars, roomVars, sessVars, pollVars>>

\* the POST is answered: _api_request returns and the handler runs on to its
\* end, or _api_request raises and the handler ends with the exception
CommandAnswer(e, answer, status) ==
    /\ cmd_state[e] = "awaiting_post"
    /\ IF RequestOutcome(answer, auth_key, last_login).error = ""
       THEN /\ cmd_state' = [cmd_state EXCEPT ![e] = "returned"]
            /\ post_status' = [post_status EXCEPT ![e] = status]
            /\ cmd_report' = [cmd_report EXCEPT ![e] =
                                 CommandReport(status, FailedIds(status, post_request[e]))]
            /\ RequestRefresh(RefreshesAfterPost)
       ELSE /\ cmd_state' = [cmd_state EXCEPT ![e] = "raised"]
            /\ UNCHANGED <<post_status, cmd_report, refresh_requests, refresh_pending>>
    /\ UNCHANGED <<cmd_name, post_request, commands, run_pc>>
    /\ UNCHANGED <<matchVars, codecVars, setupVars, roomVars, sessVars, pollVars>>

\* _async_update_data is entered (coordinator.py 59-74) by the update timer
\* or for a requested refresh.  Nothing in it looks whether another call of
\* it is still awaiting its gather.
UpdateEnter(t) ==
    /\ run_pc[t] = "idle"
    /\ update_counter < MaxUpdates
    /\ t = "refresh" => refresh_pending
    /\ refresh_pending' = (refresh_pending /\ t # "refresh")
    /\ run_pc' = [run_pc EXCEPT ![t] = "gathering"]
    /\ update_counter' = update_counter + 1
    /\ refresh_rooms' = ((update_counter + 1) % room_update_frequency = 0)
    /\ UNCHANGED <<coord_devices, room_names, data, last_update_success, aggregated>>
    /\ UNCHANGED <<cmd_name, cmd_state, post_request, post_status, cmd_report, commands,
                   refresh_requests>>
    /\ UNCHANGED <<matchVars, codecVars, setupVars, roomVars, sessVars, worldVars, fetchVars, dmVars>>

\* _async_update_data returns its dict or raises UpdateFailed; the
\* controller does not change here, so a returned dict is the one held
UpdateLeave(t, ok) ==
    /\ run_pc[t] = "gathering"
    /\ run_pc' = [run_pc EXCEPT ![t] = "idle"]
    /\ last_update_success' = ok
    /\ UNCHANGED <<update_counter, refresh_rooms, coord_devices, room_names, data,
                   aggregated>>
    /\ UNCHANGED <<cmd_name, cmd_state, post_request, post_status, cmd_report, commands,
                   refresh_requests, refresh_pending>>
    /\ UNCHANGED <<matchVars, codecVars, setupVars, roomVars, sessVars, worldVars, fetchVars, dmVars>>

EntityNext ==
    \/ \E e \in Entities : \E name \in CommandsOf(e) : \E position \in PositionArgs :
          CommandCall(e, name, position)
    \/ \E e \in Entities : \E answer \in PostAnswers : \E status \in PostStatuses :
          CommandAnswer(e, answer, status)
    \/ \E t \in Triggers : UpdateEnter(t)
    \/ \E t \in Triggers : \E ok \in BOOLEAN : UpdateLeave(t, ok)

\* the state the first refresh of the setup leaves behind on BaseWorld
FirstDevices ==
    GetDevicesResult(BaseWorld.rooms, BaseWorld.scenes, BaseWorld.devices,
                     BaseWorld.shades, EnabledTypes, <<>>)

EntityWorldInit ==
    /\ world = BaseWorld
    /\ changes = 0
    /\ ignored_device_names = <<>>

EntityFetchInit ==
    /\ client_rooms = BaseWorld.rooms
    /\ fetch = [e \in ControllerCollections |-> "idle"]
    /\ recv = [e \in ControllerCollections |-> <<>>]
    /\ gd = "idle"
    /\ gd_result = <<>>
    /\ gs = "idle"
    /\ gs_result = <<>>
    /\ cycle = "idle"
    /\ polls = 0
    /\ failed = {}

EntityCoordInit ==
    /\ update_counter = 1
    /\ refresh_rooms = FALSE
    /\ coord_devices = FirstDevices
    /\ room_names = <<>>
    /\ data = CoordDevicesByType(FirstDevices, BaseWorld.sensors, BaseWorld.rooms,
                                 EnabledTypes)
    /\ last_update_success = TRUE
    /\ aggregated = 1

----------------------------------------------------------------------------
(* Specifications *)

\* the session of one client under concurrent callers
Init == SessInit /\ NoIgnoreInit /\ FetchInit /\ DMInit /\ CoordFresh /\ MatchIdle /\ EntityIdle /\ CodecIdle /\ SetupIdle /\ RoomIdle
Spec == Init /\ [][SessNext]_vars

\* the device manager polling a changing controller
InitDM == SessInit /\ WorldInit /\ FetchInit /\ DMInit /\ CoordFresh /\ MatchIdle /\ EntityIdle /\ CodecIdle /\ SetupIdle /\ RoomIdle
SpecDM == InitDM /\ [][DMNext]_vars

\* the coordinator polling a changing controller
InitCoord == SessInit /\ WorldInit /\ FetchInit /\ DMInit /\ CoordInit /\ MatchIdle /\ EntityIdle /\ CodecIdle /\ SetupIdle /\ RoomIdle
SpecCoord == InitCoord /\ [][CoordNext]_vars

\* the same, when every network call is answered in the end: each GET of
\* the gather and the GET /rooms of the room refresh returns or fails
SpecCoordLive ==
    /\ InitCoord
    /\ [][CoordNext]_vars
    /\ \A e \in Collections : WF_vars(CoordFetchOk(e) \/ CoordFetchFail(e))
    /\ WF_vars(RefreshOk \/ RefreshFail)

\* the matcher alone
InitMatch == SessInit /\ NoIgnoreInit /\ FetchInit /\ DMInit /\ CoordFresh /\ MatchInit /\ EntityIdle /\ CodecIdle /\ SetupIdle /\ RoomIdle
SpecMatch == InitMatch /\ [][MatchNext]_vars

\* the entities commanded while the timer and requested refreshes run cycles
InitEntity ==
    /\ SessInit /\ EntityWorldInit /\ EntityFetchInit /\ DMInit /\ EntityCoordInit
    /\ MatchIdle /\ EntityIdle /\ CodecIdle /\ SetupIdle /\ RoomIdle
SpecEntity == InitEntity /\ [][EntityNext]_vars

\* the level conversions alone, over every level and every percentage
InitCodec ==
    /\ SessInit /\ NoIgnoreInit /\ FetchInit /\ DMInit /\ CoordFresh
    /\ MatchIdle /\ EntityIdle /\ CodecInit /\ SetupIdle /\ RoomIdle
SpecCodec == InitCodec /\ [][CodecNext]_vars

\* the setup of a config entry alone, over the intervals it may hold
InitSetup ==
    /\ SessInit /\ NoIgnoreInit /\ FetchInit /\ DMInit /\ CoordFresh
    /\ MatchIdle /\ EntityIdle /\ CodecIdle /\ SetupInit /\ RoomIdle
SpecSetup == InitSetup /\ [][SetupNext]_vars

\* the device manager on a controller whose collections share ids
InitSharedId ==
    /\ SessInit /\ SharedIdInit /\ FetchInit /\ DMInit /\ CoordFresh
    /\ MatchIdle /\ EntityIdle /\ CodecIdle /\ SetupIdle /\ RoomIdle
SpecSharedId == InitSharedId /\ [][DMNext]_vars

\* the room refreshes alone
InitRooms ==
    /\ SessInit /\ EntityWorldInit /\ EntityFetchInit /\ DMInit /\ RoomsCoordInit
    /\ MatchIdle /\ EntityIdle /\ CodecIdle /\ SetupIdle /\ RoomIdle
SpecRooms == InitRooms /\ [][RoomsNext]_vars

----------------------------------------------------------------------------
(* Claims about the session *)

LoginsInFlight == {c \in Callers : pc[c] = "login_sent"}

\* C1: when several callers enter login() while the session is absent or
\* expired, exactly one network login is sent and the others wait for it:
\* at no time are two GET /login requests of one client in flight.
C1_SingleFlightLogin ==
    Cardinality(LoginsInFlight) <= 1

\* C2: a 401 answer to an authenticated request clears auth_key and resets
\* last_login in the same step, ends the call with CrestronAuthError (the
\* request is not sent again), and a call that starts on the cleared
\* session sends GET /login before anything else.
C2_UnauthorizedClearsSession ==
    [][\A c \in Callers :
          /\ (pc[c] = "request_sent" /\ resp'[c] = "http_401")
                => /\ auth_key' = NoKey
                   /\ last_login' = NoLogin
                   /\ pc'[c] = "done"
                   /\ result'[c] = "CrestronAuthError"
          /\ (pc[c] = "idle" /\ pc'[c] # "idle" /\ auth_key = NoKey)
                => /\ pc'[c] = "login_sent"
                   /\ branch'[c] = "login"
          /\ (pc[c] # "request_sent" /\ pc'[c] = "request_sent" /\ branch'[c] = "login")
                => /\ pc[c] = "login_sent"
                   /\ resp'[c] = "login_ok"
                   /\ req_key'[c] = auth_key'
                   /\ req_key'[c] # NoKey
      ]_vars

\* C2 witness: one call has ended with CrestronAuthError on a 401, the
\* session is cleared, and the next call has sent GET /login.
C2_Witness ==
    \E c, d \in Callers :
        /\ c # d
        /\ pc[c] = "done" /\ resp[c] = "http_401" /\ result[c] = "CrestronAuthError"
        /\ auth_key = NoKey /\ last_login = NoLogin
        /\ pc[d] = "login_sent" /\ op[d] = "request"
        /\ issued > 0

\* C3: login() returns with a non-empty auth_key for its caller or fails
\* with CrestronAuthError or CrestronConnectionError; an answer without
\* authkey fails with CrestronAuthError.
C3_LoginContract ==
    \A c \in Callers :
        /\ (pc[c] = "request_sent") => req_key[c] # NoKey
        /\ (pc[c] = "done" /\ op[c] = "login" /\ result[c] = "ok") => auth_key # NoKey
        /\ (pc[c] = "done" /\ resp[c] \in LoginAnswers \ {"login_ok"})
              => result[c] \in {"CrestronAuthError", "CrestronConnectionError"}
        /\ (pc[c] = "done" /\ resp[c] = "login_nokey")
              => result[c] = "CrestronAuthError"

\* C4: login() skips the network login exactly when auth_key is set and
\* now - last_login < CRESTRON_SESSION_TIMEOUT; otherwise GET /login is sent,
\* and a request that follows a skipped login carries a key younger than
\* the timeout.
C4_SkipIffSessionFresh ==
    [][\A c \in Callers :
          (pc[c] = "idle" /\ pc'[c] # "idle")
            => /\ (branch'[c] = "skip")
                    <=> (auth_key # NoKey /\ now - last_login < 540)
               /\ (pc'[c] = "login_sent")
                    <=> ~(auth_key # NoKey /\ now - last_login < 540)
               /\ (pc'[c] = "request_sent")
                    => /\ req_key'[c] = auth_key
                       /\ auth_key # NoKey
                       /\ now - last_login < 540
      ]_vars

\* C4 witness: a caller found a key of age exactly 540 s and sent GET /login.
C4_Witness ==
    \E c \in Callers :
        /\ pc[c] = "login_sent"
        /\ auth_key # NoKey
        /\ current_time[c] - last_login = 540
        /\ now = current_time[c]

----------------------------------------------------------------------------
(* C5: if any one of the collection GETs of a cycle fails, the cycle ends  *)
(* with UpdateFailed and the snapshot consumers read stays the one that    *)
(* was published before: whenever a cycle of the coordinator ends with a   *)
(* failed GET, last_update_success is cleared and data is unchanged.       *)
C5_AnyFailedGetFailsCycle ==
    [][(cycle # "idle" /\ cycle' = "idle" /\ failed' # {})
          => (~last_update_success' /\ data' = data)]_vars

(* C6: when GET /sensors fails, the cycle ends there with UpdateFailed:    *)
(* the aggregation of lines 80-164 does not run, self.devices and data     *)
(* keep their values, and nothing is aggregated or published until the     *)
(* next cycle starts.                                                      *)
SensorsFetchFails ==
    /\ cycle = "gathering"
    /\ fetch["sensors"] = "pending"
    /\ fetch'["sensors"] = "idle"
    /\ "sensors" \in failed'

----------------------------------------------------------------------------
(* C7: readers of the device map never see a half-updated snapshot: once   *)
(* a poll has merged one record into the map, it has merged every record   *)
(* that get_devices and get_sensors handed to it.                          *)
MergedByLastPoll ==
    {id \in DOMAIN devices : objs[devices[id]].last_updated = polls}

HandedToLastPoll ==
    ({Get(gd_result[i], "id", 0) : i \in 1..Len(gd_result)}
        \cup {Get(gs_result[i], "id", 0) : i \in 1..Len(gs_result)}) \ {0}

C7_AtomicSnapshot ==
    (cycle = "idle" /\ MergedByLastPoll # {}) => HandedToLastPoll \subseteq MergedByLastPoll

(* C8: a device id that is in the map stays bound to the same              *)
(* CrestronDevice object, and when a poll ends, that object shows the      *)
(* status, level, position and connection of the record the poll merged    *)
(* for the id.                                                             *)
PollMerges == cycle = "gathering" /\ cycle' = "idle" /\ dm_outcome' = "ok"

\* the records of the poll that carry the id, in processing order
RecordsFor(id) ==
    SelectSeq(gd_result' \o gs_result', LAMBDA r : Get(r, "id", 0) = id)

ShowsRecord(o, r) ==
    IF "ha_device_type" \in DOMAIN r
    THEN /\ o.status = r.status
         /\ o.level = r.level
         /\ o.connection = IF r.type = DEVICE_SUBTYPE_SCENE THEN "n/a"
                           ELSE r.connectionStatus
         /\ r.type = DEVICE_SUBTYPE_SHADE => o.position = r.position
    ELSE /\ o.connection = Get(r, "connectionStatus", "online")
         /\ r.subType = DEVICE_SUBTYPE_PHOTO_SENSOR => o.level = Get(r, "level", 0)
         /\ r.subType = DEVICE_SUBTYPE_OCCUPANCY_SENSOR =>
               o.presence = Get(r, "presence", "Unavailable")

C8_SameObjectUpdatedInPlace ==
    [][\A id \in DOMAIN devices :
          /\ id \in DOMAIN devices'
          /\ devices'[id] = devices[id]
          /\ (PollMerges /\ Len(RecordsFor(id)) = 1) =>
                ShowsRecord(objs'[devices[id]], RecordsFor(id)[1])]_vars

\* the second poll has ended, and the object the first poll created for an
\* id shows another level than it did when the second poll started
C8_Witness ==
    /\ cycle = "idle"
    /\ dm_outcome = "ok"
    /\ polls = 2
    /\ \E id \in DOMAIN previous_devices :
          /\ objs[devices[id]].last_updated = 2
          /\ objs[devices[id]].level # previous_devices[id].level

(* C9: aggregation is idempotent.  A poll whose five payloads equal those   *)
(* of the last poll that ran to its end, with no record merged in between, *)
(* leaves the device map as it was: the same ids, the same object under    *)
(* every id, every field of every object unchanged, and the same by-kind   *)
(* lists.  The claim is given its most favourable reading: last_updated,   *)
(* which every merge sets to the current time, is left out of the          *)
(* comparison.                                                             *)
SameInputAgain ==
    /\ PollMerges
    /\ failed' = {}
    /\ recv' = last_input
    /\ \A i \in 1..Len(objs) : objs[i].last_updated <= last_poll_time

Unstamped(o) == [o EXCEPT !.last_updated = 0]

C9_Idempotent ==
    [][SameInputAgain =>
          /\ devices' = devices
          /\ Len(objs') = Len(objs)
          /\ \A i \in 1..Len(objs) : Unstamped(objs'[i]) = Unstamped(objs[i])
          /\ dm_result' = DevicesByType(objs, devices)]_vars

(* C10: no record whose display name (room name and device name, composed  *)
(* and stripped) or whose resolved type matches an ignore pattern is in    *)
(* the device map, nor in a by-kind list.                                  *)
RecordDisplayName(o) ==
    IF "roomName" \in DOMAIN o.raw_data THEN Strip(o.name) ELSE full_name(o)

C10_NoIgnoredRecordInSnapshot ==
    \A id \in DOMAIN devices :
        ~_matches_ignored_pattern(RecordDisplayName(objs[devices[id]]),
                                  objs[devices[id]].type, ignored_device_names)

----------------------------------------------------------------------------
(* Claims about scenes *)

\* the ids of the by-kind list of a kind
IdsListed(objs_, by_type, kind) ==
    {objs_[by_type[kind][j]].id : j \in 1..Len(by_type[kind])}

\* the ids of the records get_devices handed to the poll that ends
HandedByGetDevices == {Get(gd_result'[i], "id", 0) : i \in 1..Len(gd_result')}

IsSceneObject(o) == _get_ha_device_type(o.type, o.subtype) = DEVICE_TYPE_SCENE

----------------------------------------------------------------------------
(* Claims about the join of the collections *)

\* the entries of a fetched collection that carry the id
EntriesFor(coll, id) ==
    SelectSeq(recv'[coll], LAMBDA r : Get(r, "id", 0) = id)

\* the Light and Shade records of the devices payload that the poll merges
MergedLightOrShade ==
    {i \in 1..Len(recv'["devices"]) :
        /\ recv'["devices"][i].id \in HandedByGetDevices
        /\ ClientHaType(DataType(recv'["devices"][i]))
              \in {DEVICE_TYPE_LIGHT, DEVICE_TYPE_SHADE}}

CycleStarts == cycle = "idle" /\ cycle' = "gathering"
CycleEnds == cycle # "idle" /\ cycle' = "idle"

C15_FanOutFanIn ==
    [][/\ CycleStarts => \A e \in ControllerCollections : fetch'[e] = "pending"
       /\ CycleEnds => \A e \in ControllerCollections : fetch'[e] # "pending"]_vars

----------------------------------------------------------------------------
(* Claims about the ignore-pattern matcher *)

\* the four shapes of a pattern
WrappedShape(p) == Len(p) >= 2 /\ p[1] = "%" /\ p[Len(p)] = "%"
SuffixShape(p) == Len(p) >= 1 /\ p[1] = "%" /\ ~WrappedShape(p)
PrefixShape(p) == Len(p) >= 1 /\ p[Len(p)] = "%" /\ p[1] # "%"
BareShape(p) == p = <<>> \/ (p[1] # "%" /\ p[Len(p)] # "%")

\* two characters that differ at most in case
SameLetter(a, b) ==
    \/ a = b
    \/ \E i \in 1..Len(UpperCase) : {a, b} = {UpperCase[i], LowerCase[i]}

\* two strings that differ at most in case
SameText(x, y) == Len(x) = Len(y) /\ \A k \in 1..Len(x) : SameLetter(x[k], y[k])

\* s = u \o x \o v for some u and v; s = u \o x; s = x \o v, up to case
IsSubstring(x, s) ==
    \E i \in 0..Len(s) : \E j \in i..Len(s) :
        SameText([k \in 1..(j - i) |-> s[i + k]], x)
IsSuffix(x, s) ==
    \E i \in 0..Len(s) : SameText([k \in 1..(Len(s) - i) |-> s[i + k]], x)
IsPrefix(x, s) == \E j \in 0..Len(s) : SameText([k \in 1..j |-> s[k]], x)

\* one pattern against one string, by the shape of the pattern
ShapeMatch(p, s) ==
    \/ WrappedShape(p) /\ IsSubstring([k \in 1..(Len(p) - 2) |-> p[k + 1]], s)
    \/ SuffixShape(p) /\ IsSuffix([k \in 1..(Len(p) - 1) |-> p[k + 1]], s)
    \/ PrefixShape(p) /\ IsPrefix([k \in 1..(Len(p) - 1) |-> p[k]], s)
    \/ BareShape(p) /\ SameText(p, s)

\* C11: the matcher returns true exactly when some pattern of the list
\* matches the name or the type, letters compared without regard to case:
\* %x% by containment, %x by suffix, x% by prefix, a bare x by equality;
\* with an empty list the result is false.
C11_MatcherGrammar ==
    /\ match_result =
          (\E i \in 1..Len(match_patterns) :
              \/ ShapeMatch(match_patterns[i], match_name)
              \/ ShapeMatch(match_patterns[i], match_type))
    /\ match_patterns = <<>> => ~match_result

\* the second of two patterns, a suffix pattern in capitals, matches the
\* type and not the name, and the first pattern matches neither
C11_Witness ==
    /\ Len(match_patterns) = 2
    /\ match_result
    /\ match_patterns[2] = <<"%", "A">>
    /\ match_name = <<"a", "b">>
    /\ match_type = <<"b", "A">>
    /\ ~ShapeMatch(match_patterns[1], match_name)
    /\ ~ShapeMatch(match_patterns[1], match_type)

----------------------------------------------------------------------------
(* Claims about the triggers of a cycle and the command handlers *)

\* C16: poll cycles are serialized: at most one call of _async_update_data
\* is in flight at any time, whether the timer or a requested refresh made it
C16_OneCycleInFlight ==
    Cardinality({t \in Triggers : run_pc[t] = "gathering"}) <= 1

\* the POST of entity e is answered without error in this step
PostAnsweredOk(e) == cmd_state[e] = "awaiting_post" /\ cmd_state'[e] = "returned"

\* C20: every command whose POST the controller answers without error is
\* followed by one call of async_request_refresh, made in the step in which
\* the answer has arrived, and async_request_refresh is called in no other
\* step: never when the POST is sent or while it is awaited
C20_RefreshFollowsAnswer ==
    [][/\ \A e \in Entities :
            PostAnsweredOk(e) => /\ refresh_requests' = refresh_requests + 1
                                 /\ refresh_pending'
       /\ refresh_requests' # refresh_requests =>
            \E e \in Entities : PostAnsweredOk(e)]_vars

\* the shade has been moved to a position and its refresh is requested while
\* the command of the light is still awaiting its answer
C20_Witness ==
    /\ cmd_name[DEVICE_TYPE_SHADE] = "async_set_cover_position"
    /\ cmd_state[DEVICE_TYPE_SHADE] = "returned"
    /\ post_request[DEVICE_TYPE_SHADE].value = 32768
    /\ cmd_state[DEVICE_TYPE_LIGHT] = "awaiting_post"
    /\ refresh_requests = 1
    /\ refresh_pending

----------------------------------------------------------------------------
(* Claims about the end of a cycle of the coordinator *)

\* an error has occurred in the cycle that ends in this step: a GET has
\* failed, get_sensors has raised on its payload, or the aggregation raises
ErrorInEndedCycle ==
    \/ failed' # {}
    \/ gs' = "raised"
    \/ gs' = "done" /\ CoordAggregationRaises(gs_result', EnabledTypes)

\* C18: every login, fetch or aggregation error of a cycle marks that one
\* cycle as failed (UpdateFailed, last_update_success cleared), and the cycle
\* after it starts as any other: it counts on from the same update_counter
\* and sends its five GETs
C18_EveryErrorFailsOneCycle ==
    [][/\ (CycleEnds /\ ErrorInEndedCycle) => ~last_update_success'
       /\ CycleStarts =>
             /\ update_counter' = update_counter + 1
             /\ \A e \in Collections : fetch'[e] = "pending"]_vars

\* C17: every cycle that starts ends: from the gather and from the room
\* refresh the coordinator comes back to idle, with last_update_success set
\* (success) or cleared (failure), when every network call is answered
C17_CycleEnds == (cycle # "idle") ~> (cycle = "idle")

\* a cycle has ended in failure on GET /sensors while the four GETs of
\* get_devices are still unanswered
C17_Witness ==
    /\ cycle = "idle"
    /\ polls = 1
    /\ failed = {"sensors"}
    /\ gd = "running"
    /\ ~last_update_success

\* every element of every payload is an object
WellFormedAnswers(r) ==
    \A e \in Collections : \A i \in 1..Len(r[e]) : ~IsMalformed(r[e][i])

\* the elements of a payload that carry an id
WithId(payload, id) == {j \in 1..Len(payload) : payload[j].id = id}

\* the subtypes of the devices collection that have a platform
MappedSubtypes == {DEVICE_SUBTYPE_DIMMER, DEVICE_SUBTYPE_SWITCH, DEVICE_SUBTYPE_SHADE}

\* the snapshot d holds the states the payloads r report: every light and
\* shade has the level, status and connection of its devices record, every
\* shade the position of its shades entry, every sensor the reading of its
\* sensors record; and with no ignore pattern configured every dimmer,
\* switch, shade, scene and sensor of the payloads is in the snapshot
SnapshotCurrent(d, r) ==
    /\ \A kind \in {DEVICE_TYPE_LIGHT, DEVICE_TYPE_SHADE} : \A i \in 1..Len(d[kind]) :
          \E j \in WithId(r["devices"], d[kind][i].id) :
             /\ d[kind][i].level = r["devices"][j].level
             /\ d[kind][i].status = r["devices"][j].status
             /\ d[kind][i].connectionStatus = r["devices"][j].connectionStatus
    /\ \A i \in 1..Len(d[DEVICE_TYPE_SHADE]) :
          \E j \in WithId(r["shades"], d[DEVICE_TYPE_SHADE][i].id) :
             d[DEVICE_TYPE_SHADE][i].position = r["shades"][j].position
    /\ \A i \in 1..Len(d[DEVICE_TYPE_BINARY_SENSOR]) :
          \E j \in WithId(r["sensors"], d[DEVICE_TYPE_BINARY_SENSOR][i].id) :
             d[DEVICE_TYPE_BINARY_SENSOR][i].presence = r["sensors"][j].presence
    /\ \A i \in 1..Len(d[DEVICE_TYPE_SENSOR]) :
          \E j \in WithId(r["sensors"], d[DEVICE_TYPE_SENSOR][i].id) :
             d[DEVICE_TYPE_SENSOR][i].level = r["sensors"][j].level
    /\ ignored_device_names = <<>> =>
          /\ \A j \in 1..Len(r["devices"]) :
                r["devices"][j].subType \in MappedSubtypes =>
                   \E kind \in {DEVICE_TYPE_LIGHT, DEVICE_TYPE_SHADE} :
                      WithId(d[kind], r["devices"][j].id) # {}
          /\ \A j \in 1..Len(r["scenes"]) :
                WithId(d[DEVICE_TYPE_SCENE], r["scenes"][j].id) # {}
          /\ \A j \in 1..Len(r["sensors"]) :
                \E kind \in {DEVICE_TYPE_BINARY_SENSOR, DEVICE_TYPE_SENSOR} :
                   WithId(d[kind], r["sensors"][j].id) # {}

\* C19: whatever cycles failed before, a cycle in which every GET is
\* answered with a well-formed payload succeeds and publishes a snapshot
\* that holds the device states of those answers; the coordinator and the
\* client need no reset in between
C19_NextCycleRecovers ==
    [][(CycleEnds /\ failed' = {} /\ WellFormedAnswers(recv')) =>
          /\ last_update_success'
          /\ data' # NoData
          /\ SnapshotCurrent(data', recv')]_vars

\* two cycles failed on GET /sensors, the third was answered in full and
\* its snapshot is published
C19_Witness ==
    /\ cycle = "idle"
    /\ polls = 3
    /\ aggregated = 1
    /\ failed = {}
    /\ gd = "done"
    /\ last_update_success
    /\ data # NoData
    /\ Len(data[DEVICE_TYPE_BINARY_SENSOR]) > 0

----------------------------------------------------------------------------
(* Claims about the answer to a command *)

\* C21: when the controller answers a command with status partial or
\* failure, what the client's command returns to its caller names that
\* status and the ids of the devices that failed; it is not the return of a
\* plain success
C21_PartialIsReported ==
    \A e \in Entities :
        (cmd_state[e] = "returned" /\ post_status[e] \in {"partial", "failure"}) =>
            /\ cmd_report[e].status = post_status[e]
            /\ cmd_report[e].failed = FailedIds(post_status[e], post_request[e])

----------------------------------------------------------------------------
(* Claims about room names *)

\* the name the rooms payload of the poll that ends gives to a room id, in a
\* set: empty when the payload does not list the room
RoomNamesFetched(room_id) ==
    {recv'["rooms"][i].name : i \in WithId(recv'["rooms"], room_id)}

\* C22: a rename of a room reaches the snapshot with the next poll that
\* fetches the rooms: when a poll in which no GET failed has merged its
\* records, every light, shade and scene of the map that get_devices handed
\* over carries the room name the poll fetched for its room_id, its display
\* name starts with that name, and it is still found under its id
C22_RenamePropagates ==
    [][(PollMerges /\ failed' = {}) =>
          \A id \in HandedByGetDevices \cap DOMAIN devices' :
             LET o == objs'[devices'[id]]
             IN /\ o.id = id
                /\ \A n \in RoomNamesFetched(o.room_id) :
                      /\ o.room = n
                      /\ Len(full_name(o)) >= Len(n)
                      /\ SubSeq(full_name(o), 1, Len(n)) = n]_vars

----------------------------------------------------------------------------
(* Claims about devices of an unknown subtype *)

\* C23: a device whose subtype is neither Dimmer, Switch nor Shade is kept:
\* when a poll in which no GET failed has merged its records and no ignore
\* pattern is configured, every device of the devices payload is in the
\* device map under its id, and one of an unknown subtype is there without
\* a platform
C23_UnmappedKept ==
    [][(PollMerges /\ failed' = {} /\ ignored_device_names = <<>>) =>
          \A i \in 1..Len(recv'["devices"]) :
             LET id == recv'["devices"][i].id
             IN /\ id \in DOMAIN devices'
                /\ recv'["devices"][i].subType \notin MappedSubtypes =>
                      _get_ha_device_type(objs'[devices'[id]].type,
                                          objs'[devices'[id]].subtype) = NoHaType]_vars

----------------------------------------------------------------------------
(* Claims about the errors of a network call *)

\* C24: a 511 answer to an authenticated request is handled like a 401: it
\* clears auth_key and resets last_login in the same step and ends the call
\* with CrestronAuthError
C24_NetworkAuthRequiredClearsSession ==
    [][\A c \in Callers :
          (pc[c] = "request_sent" /\ resp'[c] = "http_511")
             => /\ auth_key' = NoKey
                /\ last_login' = NoLogin
                /\ pc'[c] = "done"
                /\ result'[c] = "CrestronAuthError"]_vars

\* the session a call found when it was answered is the session it leaves
SessionKept == auth_key' = auth_key /\ last_login' = last_login

\* C25: a transport failure or a timeout, of GET /login or of the
\* authenticated request, ends the call with CrestronConnectionError and
\* leaves auth_key and last_login as they were
C25_TransportFailureIsConnectionError ==
    [][\A c \in Callers :
          /\ (pc[c] = "login_sent"
                 /\ resp'[c] \in {"login_connect_error", "login_timeout"})
                => /\ result'[c] = "CrestronConnectionError"
                   /\ SessionKept
          /\ (pc[c] = "request_sent" /\ resp'[c] = "connect_error")
                => /\ result'[c] = "CrestronConnectionError"
                   /\ SessionKept]_vars

----------------------------------------------------------------------------
(* Claims about the level conversions *)

\* C26: a level converted to a percentage and back differs from the level
\* it started from by at most 1
C26_LevelRoundTripWithinOne ==
    (codec_kind = "level" /\ codec_step = 2) =>
        /\ codec_out - codec_in <= 1
        /\ codec_in - codec_out <= 1

\* C27: the conversions fix the ends of the range: level 0 is 0 percent,
\* 0 percent is level 0, and level 65535 is 100 percent
C27_Endpoints ==
    codec_step >= 1 =>
        /\ (codec_kind = "level" /\ codec_in = 0) => codec_mid = 0
        /\ (codec_kind = "percentage" /\ codec_in = 0) => codec_mid = 0
        /\ (codec_kind = "level" /\ codec_in = CRESTRON_MAX_LEVEL) => codec_mid = 100

\* the top level has been converted
C27_Witness ==
    /\ codec_kind = "level"
    /\ codec_step = 1
    /\ codec_in = CRESTRON_MAX_LEVEL
    /\ codec_mid = 100

----------------------------------------------------------------------------
(* Claims about availability *)

\* what the manager derives from the connection of an object
AvailabilityDerived(o) ==
    /\ is_available(o) = (o.connection # "offline")
    /\ o.ha_state = (o.connection # "offline")
    /\ (o.ha_reason # "") = (o.connection = "offline")

\* C28: in every state, every object of the manager is unavailable
\* (is_available and ha_state false, ha_reason set) exactly when its
\* connection is offline; and the poll that reports a device online, after
\* one that reported it offline, leaves it available again
C28_AvailabilityFollowsConnection ==
    /\ [](\A i \in 1..Len(objs) : AvailabilityDerived(objs[i]))
    /\ [][(PollMerges /\ failed' = {}) =>
            \A i \in 1..Len(gd_result') :
                LET r == gd_result'[i]
                    o == objs'[devices'[r.id]]
                IN r.connectionStatus # "offline" =>
                       /\ o.connection = r.connectionStatus
                       /\ is_available(o)
                       /\ o.ha_state
                       /\ o.ha_reason = ""]_vars

\* a poll has found a device online that the poll before found offline
C28_Witness ==
    /\ cycle = "idle"
    /\ dm_outcome = "ok"
    /\ \E id \in DOMAIN previous_devices :
          /\ id \in DOMAIN devices
          /\ previous_devices[id].connection = "offline"
          /\ ~previous_devices[id].ha_state
          /\ objs[devices[id]].connection = "online"
          /\ objs[devices[id]].ha_state
          /\ is_available(objs[devices[id]])
          /\ objs[devices[id]].last_updated = polls

----------------------------------------------------------------------------
(* Claims about the update interval *)

\* C29: the interval the coordinator polls with is never below
\* MIN_UPDATE_INTERVAL, whatever interval it was constructed with
C29_IntervalFloor ==
    setup_pc = "constructed" => coord_interval >= MIN_UPDATE_INTERVAL

----------------------------------------------------------------------------
(* Claims about concurrent use of the session *)

\* C30: a 401 that answers a request sent with an older key than the one
\* the client holds leaves the newer key and its last_login in place
C30_StaleUnauthorizedKeepsNewerKey ==
    [][\A c \in Callers :
          (/\ pc[c] = "request_sent"
           /\ resp'[c] = "http_401"
           /\ auth_key # NoKey
           /\ req_key[c] # NoKey
           /\ req_key[c] < auth_key) =>
              /\ auth_key' = auth_key
              /\ last_login' = last_login]_vars

----------------------------------------------------------------------------
(* Claims about what the cover entity reports *)

\* the cover entity of a shade whose stored position is the level converted
ShadeAt(position) == [id |-> 2, position |-> position]

\* C37: a shade is reported closed exactly when its position is 0; for
\* every position 1..65535 is_closed is false
C37_ClosedIffZero ==
    (codec_kind = "level" /\ codec_step >= 1) =>
        LET closed == is_closed(EmptyByType, ShadeAt(codec_in))
        IN /\ closed.error = ""
           /\ closed.value = (codec_mid = 0)
           /\ closed.value = (codec_in = 0)

\* C38: a percentage converted to a level and back is the same percentage
C38_PercentageRoundTrip ==
    (codec_kind = "percentage" /\ codec_step = 2) => codec_out = codec_in

\* a percentage whose level lies halfway between two integers has made the
\* round trip
C38_Witness ==
    /\ codec_kind = "percentage"
    /\ codec_step = 2
    /\ codec_in = 50
    /\ codec_mid = 32768
    /\ codec_out = 50

----------------------------------------------------------------------------
(* Claims about the display name *)

\* the room name, one space and the device name; the device name alone for
\* a record without a room
RoomThenName(names, name) ==
    IF names = {} THEN name ELSE Joined(CHOOSE n \in names : TRUE, name)

\* C39: after a poll, the full_name of every light, shade and scene object
\* is the name of its room, one space and the controller's name of the
\* device, the room name occurring once; the device name alone when the
\* record has no room
C39_DisplayNameIsRoomThenName ==
    [][(PollMerges /\ failed' = {}) =>
          \A coll \in {"devices", "scenes"} :
              \A i \in 1..Len(recv'[coll]) :
                  LET r == recv'[coll][i]
                  IN r.id \in HandedByGetDevices \cap DOMAIN devices' =>
                         full_name(objs'[devices'[r.id]]) =
                             RoomThenName(RoomNamesFetched(Get(r, "roomId", 0)), r.name)]_vars

----------------------------------------------------------------------------
(* Claims about the device map across polls *)

\* the ids of the records handed to the poll that ends
HandedToEndingPoll ==
    HandedByGetDevices \cup {Get(gs_result'[i], "id", 0) : i \in 1..Len(gs_result')}

\* the object of the id is in one of the lists poll_devices returned
ListedByKind(by_type, ref) ==
    \E kind \in HaTypes : \E j \in 1..Len(by_type[kind]) : by_type[kind][j] = ref

\* C34: no step removes an id from the device map; a poll that ends
\* without a record for an id of the map leaves the fields of its object as
\* they were and still returns the object in the by-kind lists
C34_AbsentDeviceStays ==
    [][/\ \A id \in DOMAIN devices : id \in DOMAIN devices'
       /\ PollMerges =>
             \A id \in DOMAIN devices \ HandedToEndingPoll :
                 /\ objs'[devices'[id]] = objs[devices[id]]
                 /\ ListedByKind(dm_result', devices'[id])]_vars

\* a poll without a failed GET has ended whose devices payload no longer
\* holds the dimmer; the object of the dimmer is still in the map and in
\* the list of lights, as the poll before left it
C34_Witness ==
    /\ cycle = "idle"
    /\ dm_outcome = "ok"
    /\ failed = {}
    /\ last_poll_time = polls
    /\ \A i \in 1..Len(last_input["devices"]) : last_input["devices"][i].id # 1
    /\ 1 \in DOMAIN devices
    /\ objs[devices[1]].last_updated < polls
    /\ ListedByKind(dm_result, devices[1])
    /\ 1 \in DOMAIN previous_devices
    /\ previous_devices[1] = objs[devices[1]]

\* C35: previous_devices is replaced by successful polls only.  The copy
\* retained from the last successful poll, the one that ran at
\* last_poll_time, was taken before that poll merged anything, so it holds
\* no object that poll has stamped; after a poll that failed it is still
\* that copy
C35_FailedPollKeepsPrevious ==
    (cycle = "idle" /\ dm_outcome \in {"empty", "raised"} /\ last_poll_time > 0) =>
        \A id \in DOMAIN previous_devices :
            previous_devices[id].last_updated < last_poll_time

----------------------------------------------------------------------------
(* Claims about the room refresh *)

\* the one rename the controller makes: room 1 from Bath to Spa
BathToSpa == [room_id |-> 1, old_name |-> Bath, new_name |-> Spa]

\* the behaviour began with a coordinator that knew the name of the room
KnewBath == update_counter = (refreshes + 1) * room_update_frequency

\* C36: the rename of a room whose name was known is found once, at the
\* first answered room refresh after it, also when refreshes before that
\* one failed: once the coordinator holds the new name the change has been
\* logged, and nothing else is ever logged
C36_RenameFoundAfterFailedRefresh ==
    /\ (KnewBath /\ 1 \in DOMAIN room_names /\ room_names[1] = Spa) =>
           room_log = <<BathToSpa>>
    /\ room_log \in {<<>>, <<BathToSpa>>}

----------------------------------------------------------------------------
(* Claims about the sensors of a poll *)

\* C32: the sensors a poll is handed are the sensors of its /sensors
\* answer filtered on names composed with the rooms of its own /rooms
\* answer, in whatever order the two answers arrived
C32_SensorFilterUsesRoomsOfCycle ==
    [][(PollMerges /\ failed' = {}) =>
          gs_result' = GetSensorsResult(recv'["sensors"], recv'["rooms"],
                                        ignored_device_names)]_vars

----------------------------------------------------------------------------
(* Claims about the two paths of the merge *)

\* C33: the object a poll has updated in place equals, last_updated
\* aside, the object the create path builds from the same record
C33_UpdateEqualsCreate ==
    [][(PollMerges /\ failed' = {}) =>
          /\ \A i \in 1..Len(gd_result') :
                 LET r == gd_result'[i]
                 IN r.id \in DOMAIN devices =>
                        Unstamped(objs'[devices'[r.id]]) = Unstamped(NewDevice(r, polls'))
          /\ \A i \in 1..Len(gs_result') :
                 LET r == gs_result'[i]
                 IN r.id \in DOMAIN devices =>
                        Unstamped(objs'[devices'[r.id]])
                            = Unstamped(NewSensor(r, client_rooms', polls'))]_vars

----------------------------------------------------------------------------
(* Claims about records that share an id *)

\* C31: records of different collections do not overwrite one another:
\* after a poll every record it was handed has an object of its own in the
\* device map, of the record's type and holding the record, also when a
\* scene and a device, or a sensor and a device, carry the same id
C31_SharedIdKeepsBoth ==
    [][(PollMerges /\ failed' = {}) =>
          LET handed == gd_result' \o gs_result'
          IN \A i \in 1..Len(handed) :
                 \E id \in DOMAIN devices' :
                     LET o == objs'[devices'[id]]
                     IN /\ o.raw_data = handed[i]
                        /\ o.type = DataType(handed[i])]_vars

====
